---- MODULE Spec2Model ----
(***************************************************************************)
(* Model of the evaluation workflow of the Generative AI Content           *)
(* Evaluation System: the Evaluation / EvaluationScore tables and the      *)
(* operations of evaluator.py and quality_control.py that read and write   *)
(* them.                                                                   *)
(*                                                                         *)
(* Modelling conventions                                                   *)
(*  - The relational store is an ideal store: a row is a record, a table   *)
(*    with an autoincrement key is a sequence whose index is the id, and   *)
(*    a unit of work (get_db_session) that ends normally persists every    *)
(*    assignment made in it.  Foreign keys are not enforced, as with the   *)
(*    default SQLite configuration (config.py:11, 19).                     *)
(*  - A nullable column holds None == <<>> or Some(v) == <<v>>.            *)
(*  - Times are in milliseconds; datetime.utcnow() reads the clock `now`.  *)
(*  - Scores and ratings are real numbers, represented by integers.        *)
(*  - A text is a sequence of one-character strings; the body of a         *)
(*    Content is represented by its length (only len(content.text) is      *)
(*    ever read by the operations modelled here).                          *)
(***************************************************************************)
EXTENDS Integers, Sequences, FiniteSets, TLC

VARIABLES users, profiles, contents, criteria, questions,
          evaluations, scores, now, arg, ret,
          created, suggestions, reports, session, exports, calls

vars == <<users, profiles, contents, criteria, questions,
          evaluations, scores, now, arg, ret,
          created, suggestions, reports, session, exports, calls>>

(* What the analytics and the start-up code use: whether create_all has    *)
(* run, the ImprovementSuggestion and AnalyticsReport tables, the scoped   *)
(* session of the request, the CSV files written to static/exports, and    *)
(* the local variables of the calls in progress in each worker             *)
analytics == <<created, suggestions, reports, session, exports, calls>>

tables == <<users, profiles, contents, criteria, questions, analytics>>

----------------------------------------------------------------------------
(* Bounds of the model *)

MaxEvals == 2

MaxTime == 60000

MaxAnswers == 10

----------------------------------------------------------------------------
(* Program constants *)

MIN_EVALUATION_TIME_SECONDS == 60

CONTENT_DOMAINS == <<"creative_writing", "technical_documentation", "marketing_copy",
                     "news_articles", "academic_papers", "social_media_posts">>

None == <<>>

Some(v) == <<v>>

Max(a, b) == IF a >= b THEN a ELSE b

----------------------------------------------------------------------------
(* Texts: str.lower() *)

LowerChar(c) ==
    CASE c = "Y" -> "y"
      [] c = "E" -> "e"
      [] c = "S" -> "s"
      [] c = "N" -> "n"
      [] c = "O" -> "o"
      [] OTHER -> c

lower(s) == [i \in DOMAIN s |-> LowerChar(s[i])]

----------------------------------------------------------------------------
(* The rows present before the evaluation workflow starts *)

(* The session of a request that has no scope open *)
(* The workers that serve requests, and a worker with no call in progress *)
Workers == {1, 2}

idle == [op |-> "none"]

no_calls == [w \in Workers |-> idle]

(* pending: the rows added and not yet committed; scopes: the              *)
(* get_db_session scopes the request has opened, each with the texts of    *)
(* the rows added in it; raised: an exception is propagating; count: the   *)
(* rows added so far                                                       *)
no_session == [pending |-> <<>>, scopes |-> <<>>, raised |-> FALSE, count |-> 0]

(* The tables exist; no analysis has been run *)
InitAnalytics ==
    /\ created = TRUE
    /\ suggestions = <<>>
    /\ reports = <<>>
    /\ session = no_session
    /\ exports = <<>>
    /\ calls = no_calls

InitUsers ==
    <<[username |-> "admin", email |-> "admin@example.com", role |-> "admin",     is_active |-> TRUE],
      [username |-> "ana",   email |-> "ana@example.com",   role |-> "evaluator", is_active |-> TRUE],
      [username |-> "ben",   email |-> "ben@example.com",   role |-> "evaluator", is_active |-> TRUE],
      [username |-> "cy",    email |-> "cy@example.com",    role |-> "evaluator", is_active |-> FALSE]>>

InitProfiles ==
    <<[user_id |-> 2, domains |-> <<"creative_writing", "technical_documentation">>, verified |-> TRUE],
      [user_id |-> 3, domains |-> <<"creative_writing">>, verified |-> TRUE],
      [user_id |-> 4, domains |-> <<"creative_writing", "technical_documentation">>, verified |-> TRUE],
      [user_id |-> 1, domains |-> <<"technical_documentation">>, verified |-> FALSE]>>

InitContents ==
    <<[text_len |-> 1000, domain |-> "creative_writing",        source_type |-> "ai",    model_name |-> Some("m1")],
      [text_len |-> 1300, domain |-> "technical_documentation", source_type |-> "human", model_name |-> None]>>

default_criteria ==
    <<[name |-> "accuracy",         scale_min |-> 1, scale_max |-> 5],
      [name |-> "coherence",        scale_min |-> 1, scale_max |-> 5],
      [name |-> "relevance",        scale_min |-> 1, scale_max |-> 5],
      [name |-> "creativity",       scale_min |-> 1, scale_max |-> 5],
      [name |-> "completeness",     scale_min |-> 1, scale_max |-> 5],
      [name |-> "language_quality", scale_min |-> 1, scale_max |-> 5]>>

InitQuestions ==
    [q \in 1..8 |->
        [correct_answer |-> IF q % 2 = 1 THEN <<"Y", "e", "s">> ELSE <<"n", "o">>,
         active |-> TRUE]]

----------------------------------------------------------------------------
(* session.query(T).get(id) *)

Exists(table, id) == id \in DOMAIN table

(* Variant: completion tested by the truthiness of duration_seconds *)
pending_by_duration(e) == e.duration_seconds = None \/ e.duration_seconds = Some(0)

pending(e) == e.completion_time = None

new_evaluation(user_id, content_id) ==
    [evaluator_id |-> user_id, content_id |-> content_id, start_time |-> now,
     completion_time |-> None, duration_seconds |-> None, overall_rating |-> None,
     comments |-> None, passed_quality_checks |-> None]

(* Variant: the lookup filters on the evaluator alone *)
existing_by_evaluator(evals, user_id, content_id) ==
    {i \in DOMAIN evals : evals[i].evaluator_id = user_id}

existing_evaluations(evals, user_id, content_id) ==
    {i \in DOMAIN evals : evals[i].evaluator_id = user_id /\ evals[i].content_id = content_id}

----------------------------------------------------------------------------
(* Query.first(): the matching row with the lowest id, 0 when there is none *)

first_existing(evals, user_id, content_id) ==
    IF existing_evaluations(evals, user_id, content_id) = {} THEN 0
    ELSE CHOOSE i \in existing_evaluations(evals, user_id, content_id) :
            \A j \in existing_evaluations(evals, user_id, content_id) : i <= j

----------------------------------------------------------------------------
(* Evaluator.start_evaluation *)

start_evaluation(user_id, content_id) ==
    IF ~Exists(users, user_id) \/ ~Exists(contents, content_id)
    THEN /\ ret' = [op |-> "start_evaluation", val |-> None, log |-> "not_found"]
         /\ UNCHANGED <<tables, evaluations, scores, now, arg>>
    ELSE IF first_existing(evaluations, user_id, content_id) # 0
    THEN /\ ret' = [op |-> "start_evaluation",
                    val |-> Some(first_existing(evaluations, user_id, content_id)),
                    log |-> "already_evaluated"]
         /\ UNCHANGED <<tables, evaluations, scores, now, arg>>
    ELSE /\ Len(evaluations) < MaxEvals
         /\ evaluations' = Append(evaluations, new_evaluation(user_id, content_id))
         /\ ret' = [op |-> "start_evaluation", val |-> Some(Len(evaluations) + 1), log |-> "started"]
         /\ UNCHANGED <<tables, scores, now, arg>>

----------------------------------------------------------------------------
(* Evaluator.assign_content_to_experts *)

domain_in(domain, domains) == \E i \in DOMAIN domains : domains[i] = domain

(* Variant: the owner of the profile is not required to be active *)
is_qualified_when_inactive(profile, domain) ==
    /\ profile.verified
    /\ domain_in(domain, profile.domains)
    /\ Exists(users, profile.user_id)

is_qualified(profile, domain) ==
    /\ profile.verified
    /\ domain_in(domain, profile.domains)
    /\ Exists(users, profile.user_id)
    /\ users[profile.user_id].is_active

RECURSIVE qualified_experts(_, _)
qualified_experts(n, domain) ==
    IF n = 0 THEN <<>>
    ELSE IF is_qualified(profiles[n], domain)
         THEN Append(qualified_experts(n - 1, domain), profiles[n].user_id)
         ELSE qualified_experts(n - 1, domain)

(* The assignment loop over experts[k..]: the table and the ids collected so far *)
RECURSIVE create_assignments(_, _, _, _, _)
create_assignments(experts, k, content_id, evals, ids) ==
    IF k > Len(experts) THEN [evaluations |-> evals, evaluation_ids |-> ids]
    ELSE IF first_existing(evals, experts[k], content_id) # 0
         THEN create_assignments(experts, k + 1, content_id, evals,
                                 Append(ids, first_existing(evals, experts[k], content_id)))
         ELSE create_assignments(experts, k + 1, content_id,
                                 Append(evals, new_evaluation(experts[k], content_id)),
                                 Append(ids, Len(evals) + 1))

assign_content_to_experts(content_id, domain) ==
    LET done == create_assignments(qualified_experts(Len(profiles), domain), 1,
                                   content_id, evaluations, <<>>)
    IN  /\ Len(done.evaluations) <= MaxEvals
        /\ evaluations' = done.evaluations
        /\ ret' = [op |-> "assign_content_to_experts", val |-> done.evaluation_ids,
                   log |-> "assigned"]
        /\ UNCHANGED <<tables, scores, now, arg>>

----------------------------------------------------------------------------
(* QualityController.validate_quality_checks *)

is_correct(question_id, answer) ==
    /\ Exists(questions, question_id)
    /\ lower(questions[question_id].correct_answer) = lower(answer)

correct_count(answers) == Cardinality({q \in DOMAIN answers : is_correct(q, answers[q])})

(* Variant: correct_count / total_count > 0.7 *)
above_pass_threshold(correct, total) == 10 * correct > 7 * total

(* correct_count / total_count >= 0.7, in tenths *)
meets_pass_threshold(correct, total) == 10 * correct >= 7 * total

validate_quality_checks(answers) ==
    IF DOMAIN answers = {} THEN FALSE
    ELSE meets_pass_threshold(correct_count(answers), Cardinality(DOMAIN answers))

----------------------------------------------------------------------------
(* Evaluator.submit_evaluation *)

(* `if quality_check_answers:` is false for None and for an empty dict *)
answers_supplied(quality_check_answers) ==
    quality_check_answers # None /\ DOMAIN quality_check_answers[1] # {}

passed_checks(quality_check_answers) ==
    IF answers_supplied(quality_check_answers)
    THEN validate_quality_checks(quality_check_answers[1])
    ELSE TRUE

(* Variant: round((now - start_time).total_seconds()) *)
duration_rounded(start_time, end_time) == (end_time - start_time + 500) \div 1000

(* int((now - start_time).total_seconds()) *)
duration_seconds(start_time, end_time) == (end_time - start_time) \div 1000

(* Variant: only the lower end of the scale is tested *)
score_above_minimum(criterion, score) == ~(score < criterion.scale_min)

score_in_range(criterion, score) ==
    ~(score < criterion.scale_min \/ score > criterion.scale_max)

score_accepted(criterion_id, score) ==
    Exists(criteria, criterion_id) /\ score_in_range(criteria[criterion_id], score)

MinOf(S) == CHOOSE x \in S : \A y \in S : x <= y

(* The loop over scores.items(), keys taken in ascending order *)
RECURSIVE score_records(_, _, _)
score_records(evaluation_id, score_map, keys) ==
    IF keys = {} THEN <<>>
    ELSE LET k == MinOf(keys)
             rest == score_records(evaluation_id, score_map, keys \ {k})
         IN  IF score_accepted(k, score_map[k])
             THEN <<[evaluation_id |-> evaluation_id, criterion_id |-> k,
                     score |-> score_map[k]]>> \o rest
             ELSE rest

(* The warnings logged by the loop, in order *)
RECURSIVE score_warnings(_, _)
score_warnings(score_map, keys) ==
    IF keys = {} THEN <<>>
    ELSE LET k == MinOf(keys)
             rest == score_warnings(score_map, keys \ {k})
         IN  IF ~Exists(criteria, k) THEN <<"criterion not found">> \o rest
             ELSE IF ~score_in_range(criteria[k], score_map[k])
                  THEN <<"score out of range">> \o rest
                  ELSE rest

(* Variant: the completion time is left unset *)
completed_without_time(e, overall_rating, comments, quality_check_answers) ==
    [e EXCEPT !.duration_seconds = Some(duration_seconds(e.start_time, now)),
              !.overall_rating = Some(overall_rating),
              !.comments = comments,
              !.passed_quality_checks = Some(passed_checks(quality_check_answers))]

(* Variant: the outcome of the quality checks is left unset *)
completed_without_checks(e, overall_rating, comments, quality_check_answers) ==
    [e EXCEPT !.completion_time = Some(now),
              !.duration_seconds = Some(duration_seconds(e.start_time, now)),
              !.overall_rating = Some(overall_rating),
              !.comments = comments]

completed_evaluation(e, overall_rating, comments, quality_check_answers) ==
    [e EXCEPT !.completion_time = Some(now),
              !.duration_seconds = Some(duration_seconds(e.start_time, now)),
              !.overall_rating = Some(overall_rating),
              !.comments = comments,
              !.passed_quality_checks = Some(passed_checks(quality_check_answers))]

submit_evaluation(evaluation_id, score_map, overall_rating, comments, quality_check_answers) ==
    IF ~Exists(evaluations, evaluation_id)
    THEN /\ ret' = [op |-> "submit_evaluation", val |-> FALSE, log |-> "not found"]
         /\ UNCHANGED <<tables, evaluations, scores, now, arg>>
    ELSE IF ~pending(evaluations[evaluation_id])
    THEN /\ ret' = [op |-> "submit_evaluation", val |-> FALSE, log |-> "already completed"]
         /\ UNCHANGED <<tables, evaluations, scores, now, arg>>
    ELSE /\ evaluations' = [evaluations EXCEPT ![evaluation_id] =
                               completed_evaluation(@, overall_rating, comments,
                                                    quality_check_answers)]
         /\ scores' = scores \o score_records(evaluation_id, score_map, DOMAIN score_map)
         /\ ret' = [op |-> "submit_evaluation", val |-> TRUE,
                    log |-> score_warnings(score_map, DOMAIN score_map)]
         /\ UNCHANGED <<tables, now, arg>>

----------------------------------------------------------------------------
(* QualityController.check_evaluation_time *)

(* Variant: the duration is compared with the whole expected time *)
below_expected_time(duration, text_length) ==
    10 * duration < Max(10 * MIN_EVALUATION_TIME_SECONDS, text_length)

(* duration < max(MIN_EVALUATION_TIME_SECONDS, text_length / 10) * 0.5, *)
(* both sides multiplied by 20                                           *)
below_min_acceptable(duration, text_length) ==
    20 * duration < Max(10 * MIN_EVALUATION_TIME_SECONDS, text_length)

evaluation_time_ok(evaluation_id) ==
    IF ~Exists(evaluations, evaluation_id) \/ pending(evaluations[evaluation_id]) THEN FALSE
    ELSE IF evaluations[evaluation_id].duration_seconds[1] < MIN_EVALUATION_TIME_SECONDS THEN FALSE
    ELSE IF ~Exists(contents, evaluations[evaluation_id].content_id) THEN FALSE
    ELSE IF below_min_acceptable(evaluations[evaluation_id].duration_seconds[1],
                                 contents[evaluations[evaluation_id].content_id].text_len)
         THEN FALSE
    ELSE TRUE

check_evaluation_time(evaluation_id) ==
    /\ ret' = [op |-> "check_evaluation_time", val |-> evaluation_time_ok(evaluation_id),
               log |-> "none"]
    /\ UNCHANGED <<tables, evaluations, scores, now, arg>>

----------------------------------------------------------------------------
(* QualityController.flag_low_quality_evaluations *)

scores_of(evaluation_id) ==
    SelectSeq(scores, LAMBDA s : s.evaluation_id = evaluation_id)

fast_completion(e) ==
    /\ e.duration_seconds # None /\ e.duration_seconds[1] # 0
    /\ e.duration_seconds[1] < MIN_EVALUATION_TIME_SECONDS

failed_quality_checks(e) == e.passed_quality_checks = Some(FALSE)

(* Variant: only the second row is compared with the first *)
straight_line_first_two(rows) ==
    /\ Len(rows) >= 2
    /\ rows[2].score = rows[1].score

straight_line(rows) ==
    /\ Len(rows) >= 2
    /\ \A i \in DOMAIN rows : rows[i].score = rows[1].score

flags_of(evaluation_id) ==
    (IF fast_completion(evaluations[evaluation_id])
     THEN << <<"Fast completion", evaluations[evaluation_id].duration_seconds[1]>> >>
     ELSE <<>>)
    \o (IF failed_quality_checks(evaluations[evaluation_id])
        THEN << <<"Failed quality checks">> >> ELSE <<>>)
    \o (IF straight_line(scores_of(evaluation_id))
        THEN << <<"Straight-line scoring">> >> ELSE <<>>)

RECURSIVE flagged_evaluations(_)
flagged_evaluations(n) ==
    IF n = 0 THEN <<>>
    ELSE IF ~pending(evaluations[n]) /\ flags_of(n) # <<>>
         THEN Append(flagged_evaluations(n - 1),
                     [evaluation_id |-> n,
                      evaluator_id |-> evaluations[n].evaluator_id,
                      content_id |-> evaluations[n].content_id,
                      flags |-> flags_of(n),
                      completion_time |-> evaluations[n].completion_time[1]])
         ELSE flagged_evaluations(n - 1)

flag_low_quality_evaluations ==
    /\ ret' = [op |-> "flag_low_quality_evaluations",
               val |-> flagged_evaluations(Len(evaluations)), log |-> "none"]
    /\ UNCHANGED <<tables, evaluations, scores, now, arg>>

----------------------------------------------------------------------------
(* The clock *)

advance_clock(d) ==
    /\ now + d <= MaxTime
    /\ now' = now + d
    /\ UNCHANGED <<tables, evaluations, scores, arg, ret>>

----------------------------------------------------------------------------
(* The arguments the operations are called with *)

UserInputs == {2, 3, 9}

ContentInputs == {1, 2, 9}

DomainInputs == {"creative_writing", "technical_documentation", "marketing_copy"}

EvaluationInputs == 1..(MaxEvals + 1)

UnknownCriterion == 7

AnswerInputs ==
    {None,
     Some(<<>>),
     Some(<<<<"Y", "E", "S">>>>),
     Some(<<<<"n", "o">>>>),
     Some(<<<<"y", "e", "s">>, <<"N", "O">>, <<"n", "o">>>>)}

(* Score maps: none, all valid, out of range below and above, unknown criterion *)
LifecycleScores ==
    {<<>>, <<1, 5>>, <<0, 6>>, [k \in {1, UnknownCriterion} |-> 5]}

(* Every score map with one rating, comment and no answers, and every answer *)
(* set with another rating, no comment and no scores                         *)
SubmitInputs ==
    {[scores |-> m, overall_rating |-> 4, comments |-> Some("ok"), answers |-> None] :
        m \in LifecycleScores}
    \cup
    {[scores |-> <<>>, overall_rating |-> 2, comments |-> None, answers |-> a] :
        a \in AnswerInputs}

----------------------------------------------------------------------------
(* The evaluation lifecycle *)

Init ==
    /\ users = InitUsers
    /\ profiles = InitProfiles
    /\ contents = InitContents
    /\ criteria = default_criteria
    /\ questions = InitQuestions
    /\ evaluations = <<>>
    /\ scores = <<>>
    /\ now = 0
    /\ arg = None
    /\ ret = [op |-> "none", val |-> None, log |-> "none"]
    /\ InitAnalytics

Tick == advance_clock(59500)

StartEvaluation == \E u \in UserInputs, c \in {1, 9} : start_evaluation(u, c)

AssignContentToExperts ==
    \E c \in {1, 9}, d \in DomainInputs : assign_content_to_experts(c, d)

SubmitEvaluation ==
    \E e \in EvaluationInputs, i \in SubmitInputs :
        submit_evaluation(e, i.scores, i.overall_rating, i.comments, i.answers)

Next ==
    \/ Tick
    \/ StartEvaluation
    \/ AssignContentToExperts
    \/ SubmitEvaluation

Spec == Init /\ [][Next]_vars

----------------------------------------------------------------------------
(* Score submission: one evaluation, every score map over three criteria *)

ScoreValues == {0, 1, 3, 4, 5, 6}

CriterionInputs == {1, 2, 3}

KnownScoreMaps == UNION {[K -> ScoreValues] : K \in SUBSET CriterionInputs}

ScoreInputs ==
    KnownScoreMaps \cup
    {[k \in DOMAIN m \cup {UnknownCriterion} |-> IF k \in DOMAIN m THEN m[k] ELSE 3] :
        m \in KnownScoreMaps}

StartScored == start_evaluation(2, 1)

SubmitScores ==
    \E e \in {1, 2}, m \in ScoreInputs : submit_evaluation(e, m, 4, None, None)

FlagScored == flag_low_quality_evaluations

NextScores ==
    \/ StartScored
    \/ SubmitScores
    \/ FlagScored

SpecScores == Init /\ [][NextScores]_vars

----------------------------------------------------------------------------
(* Timing and flags: two evaluations of one evaluator, a clock with several steps *)

TickSteps == {40000, 59500, 60000}

TimedSubmitInputs ==
    {[scores |-> <<>>,     answers |-> None],
     [scores |-> <<3, 3>>, answers |-> None],
     [scores |-> <<3, 4>>, answers |-> Some(<<<<"n", "o">>>>)]}

TickTimed == \E d \in TickSteps : advance_clock(d)

StartTimed == \E c \in {1, 2} : start_evaluation(2, c)

AssignTimed == assign_content_to_experts(9, "technical_documentation")

SubmitTimed ==
    \E e \in EvaluationInputs, i \in TimedSubmitInputs :
        submit_evaluation(e, i.scores, 4, None, i.answers)

CheckEvaluationTime == \E e \in EvaluationInputs : check_evaluation_time(e)

FlagLowQualityEvaluations == flag_low_quality_evaluations

NextTiming ==
    \/ TickTimed
    \/ StartTimed
    \/ AssignTimed
    \/ SubmitTimed
    \/ CheckEvaluationTime
    \/ FlagLowQualityEvaluations

SpecTiming == Init /\ [][NextTiming]_vars

----------------------------------------------------------------------------
(* Quality-check validation: every answer map over MaxAnswers question ids *)

AnswerTexts == {<<"Y", "E", "S">>, <<"n", "o">>}

AnswerMaps == UNION {[K -> AnswerTexts] : K \in SUBSET (1..MaxAnswers)}

InitQC ==
    /\ users = InitUsers
    /\ profiles = InitProfiles
    /\ contents = InitContents
    /\ criteria = default_criteria
    /\ questions = InitQuestions
    /\ evaluations = <<>>
    /\ scores = <<>>
    /\ now = 0
    /\ arg \in AnswerMaps
    /\ ret = [op |-> "none", val |-> None, log |-> "none"]
    /\ InitAnalytics

ValidateQualityChecks ==
    /\ ret' = [op |-> "validate_quality_checks", val |-> validate_quality_checks(arg),
               log |-> "none"]
    /\ UNCHANGED <<tables, evaluations, scores, now, arg>>

NextQC == ValidateQualityChecks

SpecQC == InitQC /\ [][NextQC]_vars

----------------------------------------------------------------------------
(* Vocabulary of the properties, stated on the tables alone *)

IsCompleted(e) == evaluations[e].completion_time # None

PairRows(evals, u, c) ==
    {i \in DOMAIN evals : evals[i].evaluator_id = u /\ evals[i].content_id = c}

RowsOf(rows, e) == {i \in DOMAIN rows : rows[i].evaluation_id = e}

ValidScore(k, v) ==
    k \in DOMAIN criteria /\ criteria[k].scale_min <= v /\ v <= criteria[k].scale_max

Added(old, new) == SubSeq(new, Len(old) + 1, Len(new))

----------------------------------------------------------------------------
(* C1: in sequential executions of start_evaluation and                    *)
(* assign_content_to_experts there is at most one Evaluation row per       *)
(* (evaluator_id, content_id) pair, and a start_evaluation call for an     *)
(* existing user and content returns the id of the one row of that pair,   *)
(* adding no row when the pair already had one.                            *)

OneEvaluationPerPair ==
    \A i, j \in DOMAIN evaluations :
        (evaluations[i].evaluator_id = evaluations[j].evaluator_id
            /\ evaluations[i].content_id = evaluations[j].content_id) => i = j

StartReturnsThePairsRow(u, c) ==
    (Exists(users, u) /\ Exists(contents, c) /\ start_evaluation(u, c)) =>
        /\ ret'.val # None
        /\ PairRows(evaluations', u, c) = {ret'.val[1]}
        /\ PairRows(evaluations, u, c) # {} => evaluations' = evaluations

C1_OneEvaluationPerPair ==
    /\ []OneEvaluationPerPair
    /\ [][\A u \in UserInputs, c \in ContentInputs : StartReturnsThePairsRow(u, c)]_vars

C1_Witness ==
    /\ ret.op = "start_evaluation" /\ ret.log = "already_evaluated"
    /\ Len(evaluations) = 2
    /\ ret.val = Some(2)

----------------------------------------------------------------------------
(* C2: submit_evaluation on a completed evaluation returns failure with    *)
(* "already completed", and on an unknown id returns failure; in both      *)
(* cases no Evaluation field and no EvaluationScore row changes.           *)

RejectedSubmissionChangesNothing(e, i) ==
    ((Exists(evaluations, e) => IsCompleted(e))
        /\ submit_evaluation(e, i.scores, i.overall_rating, i.comments, i.answers)) =>
        /\ ret'.val = FALSE
        /\ Exists(evaluations, e) => ret'.log = "already completed"
        /\ evaluations' = evaluations
        /\ scores' = scores

C2_CompletedSubmissionRejected ==
    [][\A e \in EvaluationInputs, i \in SubmitInputs :
          RejectedSubmissionChangesNothing(e, i)]_vars

C2_Witness ==
    /\ ret.op = "submit_evaluation" /\ ret.val = FALSE /\ ret.log = "already completed"
    /\ \E e \in DOMAIN evaluations : IsCompleted(e) /\ RowsOf(scores, e) # {}

----------------------------------------------------------------------------
(* C3: every EvaluationScore row refers to an existing criterion and has a *)
(* score within that criterion's scale; a submission creates no row for a  *)
(* pair with an unknown criterion or an out-of-range score and exactly one *)
(* row, carrying the submitted score, for every other pair.                *)

EveryScoreRowValid ==
    \A r \in DOMAIN scores : ValidScore(scores[r].criterion_id, scores[r].score)

OneRowPerValidPair(e, m) ==
    submit_evaluation(e, m, 4, None, None) =>
        /\ SubSeq(scores', 1, Len(scores)) = scores
        /\ \A k \in DOMAIN m :
              Cardinality({r \in DOMAIN Added(scores, scores') :
                              Added(scores, scores')[r].criterion_id = k})
                 = IF ValidScore(k, m[k]) THEN 1 ELSE 0
        /\ \A r \in DOMAIN Added(scores, scores') :
              /\ Added(scores, scores')[r].evaluation_id = e
              /\ Added(scores, scores')[r].criterion_id \in DOMAIN m
              /\ Added(scores, scores')[r].score = m[Added(scores, scores')[r].criterion_id]

C3_ScoreRowsValid ==
    /\ []EveryScoreRowValid
    /\ [][\A e \in DOMAIN evaluations :
              ~IsCompleted(e) => \A m \in ScoreInputs : OneRowPerValidPair(e, m)]_vars

C3_Witness ==
    /\ ret.op = "submit_evaluation" /\ ret.val = TRUE
    /\ ret.log = <<"score out of range", "score out of range", "criterion not found">>
    /\ Len(scores) = 1 /\ scores[1].criterion_id = 2 /\ scores[1].score = 5

----------------------------------------------------------------------------
(* C4: submit_evaluation on an existing pending evaluation returns success *)
(* and stores completion time, duration (whole seconds since start),       *)
(* overall rating, comments and a quality outcome, whatever the scores;    *)
(* when every submitted score is invalid the evaluation is completed with  *)
(* no EvaluationScore row.                                                 *)

PendingSubmissionCompletes(e, i) ==
    (Exists(evaluations, e) /\ ~IsCompleted(e)
        /\ submit_evaluation(e, i.scores, i.overall_rating, i.comments, i.answers)) =>
        /\ ret'.val = TRUE
        /\ evaluations'[e].completion_time = Some(now)
        /\ evaluations'[e].duration_seconds # None
        /\ 1000 * evaluations'[e].duration_seconds[1] <= now - evaluations[e].start_time
        /\ now - evaluations[e].start_time < 1000 * (evaluations'[e].duration_seconds[1] + 1)
        /\ evaluations'[e].overall_rating = Some(i.overall_rating)
        /\ evaluations'[e].comments = i.comments
        /\ evaluations'[e].passed_quality_checks \in {Some(TRUE), Some(FALSE)}
        /\ (\A k \in DOMAIN i.scores : ~ValidScore(k, i.scores[k])) =>
               RowsOf(scores', e) = {}

----------------------------------------------------------------------------
(* C5: an Evaluation is never deleted and its evaluator, content and start *)
(* time never change; it becomes completed only in a successful            *)
(* submit_evaluation, and once completed neither its fields nor its        *)
(* EvaluationScore rows change; rows are created only for the evaluation   *)
(* that the same step completes, so a pending evaluation has no rows.      *)

PendingHasNoScores ==
    \A e \in DOMAIN evaluations : ~IsCompleted(e) => RowsOf(scores, e) = {}

CompletionIsOneWay ==
    /\ DOMAIN evaluations \subseteq DOMAIN evaluations'
    /\ SubSeq(scores', 1, Len(scores)) = scores
    /\ \A e \in DOMAIN evaluations :
          /\ evaluations'[e].evaluator_id = evaluations[e].evaluator_id
          /\ evaluations'[e].content_id = evaluations[e].content_id
          /\ evaluations'[e].start_time = evaluations[e].start_time
          /\ IsCompleted(e) =>
                evaluations'[e] = evaluations[e] /\ RowsOf(scores', e) = RowsOf(scores, e)
          /\ (~IsCompleted(e) /\ evaluations'[e].completion_time # None) =>
                ret'.op = "submit_evaluation" /\ ret'.val = TRUE
    /\ \A r \in DOMAIN Added(scores, scores') :
          /\ Added(scores, scores')[r].evaluation_id \in DOMAIN evaluations
          /\ ~IsCompleted(Added(scores, scores')[r].evaluation_id)
          /\ evaluations'[Added(scores, scores')[r].evaluation_id].completion_time # None

----------------------------------------------------------------------------
(* C6: validate_quality_checks returns true exactly when the answer set is *)
(* non-empty and the answers that equal, ignoring case, the stored correct *)
(* answer of an existing question are at least 0.7 of the answers          *)
(* supplied; answers for unknown question ids count among the supplied     *)
(* ones and are never correct. 7 of 10 passes, 6 of 10 and the empty set   *)
(* fail.                                                                   *)

CasePairs == {<<"Y", "y">>, <<"E", "e">>, <<"S", "s">>, <<"N", "n">>, <<"O", "o">>}

SameLetter(x, y) == x = y \/ <<x, y>> \in CasePairs \/ <<y, x>> \in CasePairs

EqualIgnoringCase(a, b) ==
    Len(a) = Len(b) /\ \A i \in DOMAIN a : SameLetter(a[i], b[i])

CorrectAnswers(answers) ==
    {q \in DOMAIN answers :
        q \in DOMAIN questions /\ EqualIgnoringCase(answers[q], questions[q].correct_answer)}

Passes(answers) ==
    /\ DOMAIN answers # {}
    /\ 10 * Cardinality(CorrectAnswers(answers)) >= 7 * Cardinality(DOMAIN answers)

C6_ValidatePassesAtSeventyPercent ==
    ret.op = "validate_quality_checks" =>
        /\ ret.val = Passes(arg)
        /\ (Cardinality(DOMAIN arg) = 10 /\ Cardinality(CorrectAnswers(arg)) = 7) => ret.val = TRUE
        /\ (Cardinality(DOMAIN arg) = 10 /\ Cardinality(CorrectAnswers(arg)) = 6) => ret.val = FALSE
        /\ DOMAIN arg = {} => ret.val = FALSE

C6_Witness ==
    /\ ret.op = "validate_quality_checks" /\ ret.val = TRUE
    /\ Cardinality(DOMAIN arg) = 10
    /\ Cardinality(CorrectAnswers(arg)) = 7
    /\ \E q \in CorrectAnswers(arg) : arg[q] # questions[q].correct_answer

----------------------------------------------------------------------------
(* C7: submit_evaluation stores as passed_quality_checks the outcome of    *)
(* validate_quality_checks whenever an answer map is supplied, the empty   *)
(* map included (which fails validation), and stores true only when no     *)
(* answers are supplied at all.                                            *)

StoresValidationOutcome(e, i) ==
    submit_evaluation(e, i.scores, i.overall_rating, i.comments, i.answers) =>
        evaluations'[e].passed_quality_checks =
            Some(IF i.answers = None THEN TRUE ELSE Passes(i.answers[1]))

C7_StoresValidationOutcome ==
    [][\A e \in DOMAIN evaluations :
          ~IsCompleted(e) => \A i \in SubmitInputs : StoresValidationOutcome(e, i)]_vars

----------------------------------------------------------------------------
(* C8: check_evaluation_time returns true exactly when the evaluation      *)
(* exists, is completed, its content exists, and its duration is at least  *)
(* 60 seconds and at least half of max(60, text length / 10); for a text   *)
(* of 1000 characters 40 seconds fail and 60 seconds pass.                 *)

ReasonableTime(e) ==
    /\ e \in DOMAIN evaluations
    /\ IsCompleted(e)
    /\ evaluations[e].content_id \in DOMAIN contents
    /\ evaluations[e].duration_seconds[1] >= 60
    /\ 2 * 10 * evaluations[e].duration_seconds[1]
          >= Max(60 * 10, contents[evaluations[e].content_id].text_len)

ThousandCharacters(e) ==
    /\ e \in DOMAIN evaluations /\ IsCompleted(e)
    /\ evaluations[e].content_id \in DOMAIN contents
    /\ contents[evaluations[e].content_id].text_len = 1000

CheckedTimeIsReasonable(e) ==
    check_evaluation_time(e) =>
        /\ ret'.val = ReasonableTime(e)
        /\ (ThousandCharacters(e) /\ evaluations[e].duration_seconds = Some(40)) => ret'.val = FALSE
        /\ (ThousandCharacters(e) /\ evaluations[e].duration_seconds = Some(60)) => ret'.val = TRUE

C8_CheckEvaluationTime ==
    [][\A e \in EvaluationInputs : CheckedTimeIsReasonable(e)]_vars

C8_Witness ==
    /\ ret.op = "check_evaluation_time" /\ ret.val = TRUE
    /\ Len(evaluations) = 2
    /\ ThousandCharacters(1) /\ evaluations[1].duration_seconds = Some(60)
    /\ IsCompleted(2) /\ evaluations[2].duration_seconds = Some(60)
    /\ evaluations[2].content_id = 2

----------------------------------------------------------------------------
(* C9: flag_low_quality_evaluations reports 'Straight-line scoring' for a  *)
(* completed evaluation exactly when it has at least two EvaluationScore   *)
(* rows and all of them carry the same score.                              *)

RecordsOf(e) == {i \in DOMAIN ret.val : ret.val[i].evaluation_id = e}

HasFlag(e, name) ==
    \E i \in RecordsOf(e) : \E j \in DOMAIN ret.val[i].flags : ret.val[i].flags[j][1] = name

AllSameScore(e) ==
    /\ Cardinality(RowsOf(scores, e)) >= 2
    /\ \A i, j \in RowsOf(scores, e) : scores[i].score = scores[j].score

C9_StraightLineScoring ==
    ret.op = "flag_low_quality_evaluations" =>
        \A e \in DOMAIN evaluations :
            IsCompleted(e) => (HasFlag(e, "Straight-line scoring") <=> AllSameScore(e))

C9_Witness ==
    /\ ret.op = "flag_low_quality_evaluations"
    /\ HasFlag(1, "Straight-line scoring")
    /\ Cardinality(RowsOf(scores, 1)) = 3

----------------------------------------------------------------------------
(* C10: flag_low_quality_evaluations returns exactly one record for every  *)
(* completed evaluation with at least one flag and none for a pending one; *)
(* every completed evaluation with a duration below 60 seconds, 0 seconds  *)
(* included, carries a fast-completion flag, and every completed           *)
(* evaluation that failed its quality checks carries 'Failed quality       *)
(* checks'.                                                                *)

TooFast(e) == evaluations[e].duration_seconds[1] < 60

FailedChecks(e) == evaluations[e].passed_quality_checks = Some(FALSE)

Flagged(e) == IsCompleted(e) /\ (TooFast(e) \/ FailedChecks(e) \/ AllSameScore(e))

C10_EveryFastCompletionFlagged ==
    ret.op = "flag_low_quality_evaluations" =>
        \A e \in DOMAIN evaluations :
            /\ Cardinality(RecordsOf(e)) = IF Flagged(e) THEN 1 ELSE 0
            /\ (IsCompleted(e) /\ TooFast(e)) => HasFlag(e, "Fast completion")
            /\ (IsCompleted(e) /\ FailedChecks(e)) => HasFlag(e, "Failed quality checks")

----------------------------------------------------------------------------
(* Evaluator.get_content_for_evaluation *)

(* `if domain:` and the other filter tests: None and the empty value add no filter *)
filter_given(v) == v # None /\ v[1] # ""

(* `if exclude_ids:` *)
list_given(v) == v # None /\ v[1] # <<>>

in_list(id, ids) == \E i \in DOMAIN ids : ids[i] = id

content_matches(id, domain, source_type, model_name, exclude_ids) ==
    /\ filter_given(domain) => contents[id].domain = domain[1]
    /\ filter_given(source_type) => contents[id].source_type = source_type[1]
    /\ filter_given(model_name) => contents[id].model_name = model_name
    /\ list_given(exclude_ids) => ~in_list(id, exclude_ids[1])

matching_contents(domain, source_type, model_name, exclude_ids) ==
    {id \in DOMAIN contents : content_matches(id, domain, source_type, model_name, exclude_ids)}

(* Variant: only completed evaluations are counted *)
eval_count_completed(content_id) ==
    Cardinality({i \in DOMAIN evaluations :
                    evaluations[i].content_id = content_id /\ ~pending(evaluations[i])})

eval_count(content_id) ==
    Cardinality({i \in DOMAIN evaluations : evaluations[i].content_id = content_id})

(* The values random.random() takes in one call *)
RandomValues == {0, 1}

(* key=lambda x: (x[1], random.random()) *)
sort_key_less(a, b, random) ==
    \/ eval_count(a) < eval_count(b)
    \/ eval_count(a) = eval_count(b) /\ random[a] < random[b]

(* contents_with_counts[0] after the stable sort of the rows, read in id order *)
first_sorted(matches, random) ==
    CHOOSE c \in matches :
        \A d \in matches \ {c} :
            sort_key_less(c, d, random) \/ (~sort_key_less(d, c, random) /\ c < d)

get_content_for_evaluation(domain, source_type, model_name, exclude_ids) ==
    /\ IF matching_contents(domain, source_type, model_name, exclude_ids) = {}
       THEN ret' = [op |-> "get_content_for_evaluation", val |-> None, log |-> "none"]
       ELSE \E random \in [matching_contents(domain, source_type, model_name, exclude_ids)
                              -> RandomValues] :
               ret' = [op |-> "get_content_for_evaluation",
                       val |-> Some(first_sorted(matching_contents(domain, source_type,
                                                                   model_name, exclude_ids),
                                                 random)),
                       log |-> "none"]
    /\ UNCHANGED <<tables, evaluations, scores, now, arg>>

----------------------------------------------------------------------------
(* Content selection: three contents, evaluations started by two evaluators *)

ContentPool ==
    <<[text_len |-> 1000, domain |-> "creative_writing",        source_type |-> "ai",    model_name |-> Some("m1")],
      [text_len |-> 1300, domain |-> "technical_documentation", source_type |-> "human", model_name |-> None],
      [text_len |-> 800,  domain |-> "creative_writing",        source_type |-> "ai",    model_name |-> Some("m1")]>>

ContentFilters ==
    [domain : {None, Some("creative_writing"), Some("marketing_copy")},
     source_type : {None, Some("ai")},
     model_name : {None},
     exclude_ids : {None, Some(<<1>>)}]
    \cup
    [domain : {None},
     source_type : {None, Some("human")},
     model_name : {None, Some("m1")},
     exclude_ids : {Some(<<>>), Some(<<3, 2>>)}]

InitSelection ==
    /\ users = InitUsers
    /\ profiles = InitProfiles
    /\ contents = ContentPool
    /\ criteria = default_criteria
    /\ questions = InitQuestions
    /\ evaluations = <<>>
    /\ scores = <<>>
    /\ now = 0
    /\ arg = None
    /\ ret = [op |-> "none", val |-> None, log |-> "none"]
    /\ InitAnalytics

StartSelected == \E u \in {2, 3}, c \in DOMAIN ContentPool : start_evaluation(u, c)

SubmitSelected == \E e \in 1..MaxEvals : submit_evaluation(e, <<>>, 4, None, None)

GetContentForEvaluation ==
    \E f \in ContentFilters :
        get_content_for_evaluation(f.domain, f.source_type, f.model_name, f.exclude_ids)

NextSelection ==
    \/ StartSelected
    \/ SubmitSelected
    \/ GetContentForEvaluation

SpecSelection == InitSelection /\ [][NextSelection]_vars

----------------------------------------------------------------------------
(* C11: get_content_for_evaluation returns None when no Content matches    *)
(* the domain, source type, model name and exclusion filters, and          *)
(* otherwise returns a matching Content whose number of Evaluation rows,   *)
(* pending or completed, is minimal among the matches; every match with    *)
(* the minimal count is a possible result.                                 *)

Matches(f) ==
    {c \in DOMAIN contents :
        /\ f.domain # None => contents[c].domain = f.domain[1]
        /\ f.source_type # None => contents[c].source_type = f.source_type[1]
        /\ f.model_name # None => contents[c].model_name = f.model_name
        /\ f.exclude_ids # None =>
              \A i \in DOMAIN f.exclude_ids[1] : f.exclude_ids[1][i] # c}

EvaluationsOn(c) == {i \in DOMAIN evaluations : evaluations[i].content_id = c}

LeastEvaluated(f) ==
    {c \in Matches(f) :
        \A d \in Matches(f) : Cardinality(EvaluationsOn(c)) <= Cardinality(EvaluationsOn(d))}

SelectionIsLeastEvaluated(f) ==
    get_content_for_evaluation(f.domain, f.source_type, f.model_name, f.exclude_ids) =>
        IF Matches(f) = {} THEN ret'.val = None
        ELSE ret'.val # None /\ ret'.val[1] \in LeastEvaluated(f)

EveryLeastEvaluatedPossible ==
    \A f \in ContentFilters : \A c \in LeastEvaluated(f) :
        ENABLED (/\ get_content_for_evaluation(f.domain, f.source_type, f.model_name,
                                               f.exclude_ids)
                 /\ ret'.val = Some(c))

C11_LeastEvaluatedContent ==
    /\ []EveryLeastEvaluatedPossible
    /\ [][ret'.op = "get_content_for_evaluation" =>
              \A f \in ContentFilters : SelectionIsLeastEvaluated(f)]_vars

C11_Witness ==
    /\ ret.op = "get_content_for_evaluation" /\ ret.val = Some(3)
    /\ Cardinality(EvaluationsOn(1)) = 0 /\ Cardinality(EvaluationsOn(2)) = 2
    /\ Cardinality(EvaluationsOn(3)) = 0
    /\ \E e \in DOMAIN evaluations : IsCompleted(e)

----------------------------------------------------------------------------
(* Evaluator.get_expert_qualification *)
(* ExpertProfile.domains only ever holds the list create_expert_profile    *)
(* stored, so the branch decoding a string is never taken.                 *)

active_user(user_id) == Exists(users, user_id) /\ users[user_id].is_active

(* Variant: the profile is looked up without the verified filter *)
any_profile(user_id) ==
    IF {p \in DOMAIN profiles : profiles[p].user_id = user_id} = {} THEN 0
    ELSE MinOf({p \in DOMAIN profiles : profiles[p].user_id = user_id})

(* filter(user_id == user_id, verified == True).first(), 0 when there is none *)
verified_profile(user_id) ==
    IF {p \in DOMAIN profiles : profiles[p].user_id = user_id /\ profiles[p].verified} = {}
    THEN 0
    ELSE MinOf({p \in DOMAIN profiles : profiles[p].user_id = user_id /\ profiles[p].verified})

expert_qualification(user_id, domain) ==
    IF ~active_user(user_id) THEN FALSE
    ELSE IF users[user_id].role = "admin" THEN TRUE
    ELSE IF verified_profile(user_id) = 0 THEN FALSE
    ELSE IF profiles[verified_profile(user_id)].domains # <<>>
         THEN domain_in(domain, profiles[verified_profile(user_id)].domains)
         ELSE FALSE

get_expert_qualification(user_id, domain) ==
    /\ ret' = [op |-> "get_expert_qualification",
               val |-> expert_qualification(user_id, domain), log |-> "none"]
    /\ UNCHANGED <<tables, evaluations, scores, now, arg>>

----------------------------------------------------------------------------
(* Qualification: every table of two accounts and of their profiles *)

AccountTables ==
    {<<[username |-> "ana", email |-> "ana@example.com", role |-> r1, is_active |-> a1],
       [username |-> "ben", email |-> "ben@example.com", role |-> r2, is_active |-> a2]>> :
        r1 \in {"evaluator", "admin"}, r2 \in {"evaluator", "admin"},
        a1 \in BOOLEAN, a2 \in BOOLEAN}

DomainLists == {<<>>, <<"creative_writing">>, <<"technical_documentation", "creative_writing">>}

ProfilesOf(user_id) ==
    {<<>>} \cup {<<[user_id |-> user_id, domains |-> d, verified |-> v]>> :
                    d \in DomainLists, v \in BOOLEAN}

ProfileTables == {p2 \o p1 : p1 \in ProfilesOf(1), p2 \in ProfilesOf(2)}

InitQualification ==
    /\ users \in AccountTables
    /\ profiles \in ProfileTables
    /\ contents = InitContents
    /\ criteria = default_criteria
    /\ questions = InitQuestions
    /\ evaluations = <<>>
    /\ scores = <<>>
    /\ now = 0
    /\ arg = None
    /\ ret = [op |-> "none", val |-> None, log |-> "none"]
    /\ InitAnalytics

QualificationDomains == {"creative_writing", "technical_documentation"}

GetExpertQualification ==
    \E u \in 1..3, d \in QualificationDomains : get_expert_qualification(u, d)

StartQualified == \E u \in 1..2 : start_evaluation(u, 1)

AssignQualified == \E d \in QualificationDomains : assign_content_to_experts(1, d)

NextQualification ==
    \/ GetExpertQualification
    \/ StartQualified
    \/ AssignQualified

SpecQualification == InitQualification /\ [][NextQualification]_vars

----------------------------------------------------------------------------
(* C12: get_expert_qualification is false for a missing or inactive user   *)
(* (an inactive admin too), true for every active admin, and for any       *)
(* other active user true exactly when the user has a verified             *)
(* ExpertProfile whose domains list contains the requested domain.         *)

ListsDomain(p, d) == \E i \in DOMAIN profiles[p].domains : profiles[p].domains[i] = d

VerifiedFor(u, d) ==
    \E p \in DOMAIN profiles :
        profiles[p].user_id = u /\ profiles[p].verified = TRUE /\ ListsDomain(p, d)

QualificationAsStated(u, d) ==
    get_expert_qualification(u, d) =>
        ret'.val = IF u \notin DOMAIN users \/ users[u].is_active = FALSE THEN FALSE
                   ELSE IF users[u].role = "admin" THEN TRUE
                   ELSE VerifiedFor(u, d)

C12_ExpertQualification ==
    [][ret'.op = "get_expert_qualification" =>
          \A u \in 1..3, d \in QualificationDomains : QualificationAsStated(u, d)]_vars

C12_Witness ==
    /\ ret.op = "get_expert_qualification" /\ ret.val = FALSE
    /\ users[1].role = "admin" /\ users[1].is_active = FALSE
    /\ VerifiedFor(1, "creative_writing") /\ VerifiedFor(1, "technical_documentation")
    /\ users[2].role = "admin" /\ users[2].is_active = FALSE
    /\ VerifiedFor(2, "creative_writing") /\ VerifiedFor(2, "technical_documentation")

----------------------------------------------------------------------------
(* C13: assign_content_to_experts returns exactly one evaluation id per    *)
(* qualified expert, the qualified experts being the active users that     *)
(* own a verified ExpertProfile listing the domain: the existing id, with  *)
(* no row added, for an expert who already has an Evaluation on the        *)
(* content, and the id of one new pending Evaluation otherwise; no         *)
(* Evaluation is created for anyone else.                                  *)

QualifiedExperts(d) ==
    {u \in DOMAIN users : users[u].is_active = TRUE /\ VerifiedFor(u, d)}

ReturnedFor(ids, evals, u, c) ==
    {i \in DOMAIN ids : ids[i] \in PairRows(evals, u, c)}

OneAssignmentPerExpert(c, d) ==
    assign_content_to_experts(c, d) =>
        /\ SubSeq(evaluations', 1, Len(evaluations)) = evaluations
        /\ Len(ret'.val) = Cardinality(QualifiedExperts(d))
        /\ \A u \in QualifiedExperts(d) :
              /\ Cardinality(ReturnedFor(ret'.val, evaluations', u, c)) = 1
              /\ Cardinality(PairRows(evaluations', u, c)) =
                    IF PairRows(evaluations, u, c) # {}
                    THEN Cardinality(PairRows(evaluations, u, c)) ELSE 1
        /\ \A e \in DOMAIN evaluations' \ DOMAIN evaluations :
              /\ evaluations'[e].evaluator_id \in QualifiedExperts(d)
              /\ evaluations'[e].content_id = c
              /\ evaluations'[e].completion_time = None

C13_OneAssignmentPerExpert ==
    [][ret'.op = "assign_content_to_experts" =>
          \A d \in QualificationDomains : OneAssignmentPerExpert(1, d)]_vars

C13_Witness ==
    /\ ret.op = "assign_content_to_experts" /\ Len(ret.val) = 2
    /\ ret.val[1] = 2 /\ ret.val[2] = 1
    /\ Len(evaluations) = 2
    /\ evaluations[1].evaluator_id = 1 /\ evaluations[2].evaluator_id = 2

----------------------------------------------------------------------------
(* utils.create_expert_profile and the become_expert page *)

valid_domains(domains) ==
    \A i \in DOMAIN domains : \E j \in DOMAIN CONTENT_DOMAINS : CONTENT_DOMAINS[j] = domains[i]

(* filter(ExpertProfile.user_id == user_id).first(), 0 when there is none *)
profile_of(user_id) ==
    IF {p \in DOMAIN profiles : profiles[p].user_id = user_id} = {} THEN 0
    ELSE MinOf({p \in DOMAIN profiles : profiles[p].user_id = user_id})

new_profile(user_id, domains, years_experience, qualifications, bio, verified) ==
    [user_id |-> user_id, domains |-> domains, years_experience |-> years_experience,
     qualifications |-> qualifications, bio |-> bio, verified |-> verified]

(* The table after the call and the id returned, 0 for None *)
saved_profile(user_id, domains, years_experience, qualifications, bio, verified) ==
    IF ~valid_domains(domains) \/ ~Exists(users, user_id)
    THEN [profiles |-> profiles, id |-> 0]
    ELSE IF profile_of(user_id) # 0
    THEN [profiles |-> [profiles EXCEPT ![profile_of(user_id)] =
                           [@ EXCEPT !.domains = domains,
                                     !.years_experience = years_experience,
                                     !.qualifications = qualifications,
                                     !.bio = bio,
                                     !.verified = verified]],
          id |-> profile_of(user_id)]
    ELSE [profiles |-> Append(profiles, new_profile(user_id, domains, years_experience,
                                                    qualifications, bio, verified)),
          id |-> Len(profiles) + 1]

create_expert_profile(user_id, domains, years_experience, qualifications, bio, verified) ==
    LET saved == saved_profile(user_id, domains, years_experience, qualifications, bio, verified)
    IN  /\ profiles' = saved.profiles
        /\ ret' = [op |-> "create_expert_profile",
                   val |-> IF saved.id = 0 THEN None ELSE Some(saved.id), log |-> "none"]
        /\ UNCHANGED <<users, contents, criteria, questions, evaluations, scores, now, arg, analytics>>

(* ExpertProfileForm: DataRequired and the choices of domains, NumberRange(1, 100) *)
validate_on_submit(form) ==
    /\ form.domains # <<>> /\ valid_domains(form.domains)
    /\ form.years_experience >= 1 /\ form.years_experience <= 100

(* Variant: an existing profile is saved as verified *)
verified_if_existing(profile_id) == profile_id # 0

(* verified=False if not profile else profile.verified *)
verified_kept(profile_id) == IF profile_id = 0 THEN FALSE ELSE profiles[profile_id].verified

become_expert(user_id, form) ==
    IF ~validate_on_submit(form)
    THEN /\ ret' = [op |-> "become_expert", val |-> None, log |-> "form"]
         /\ UNCHANGED <<tables, evaluations, scores, now, arg>>
    ELSE LET saved == saved_profile(user_id, form.domains, form.years_experience,
                                    form.qualifications, form.bio,
                                    verified_kept(profile_of(user_id)))
         IN  /\ profiles' = saved.profiles
             /\ ret' = [op |-> "become_expert",
                        val |-> IF saved.id = 0 THEN None ELSE Some(saved.id),
                        log |-> IF saved.id = 0 THEN "failed" ELSE "updated"]
             /\ UNCHANGED <<users, contents, criteria, questions, evaluations, scores, now, arg, analytics>>

----------------------------------------------------------------------------
(* Profiles: two evaluators, each without a profile or with one that an    *)
(* administrator has or has not verified                                   *)

StoredProfiles(user_id) ==
    {<<>>} \cup {<<new_profile(user_id, <<"marketing_copy">>, 1, None, None, v)>> :
                    v \in BOOLEAN}

StoredProfileTables == {p3 \o p2 : p2 \in StoredProfiles(2), p3 \in StoredProfiles(3)}

ProfileForms ==
    [domains : {<<>>, <<"creative_writing">>, <<"technical_documentation", "creative_writing">>},
     years_experience : {0, 5},
     qualifications : {None, Some("phd")},
     bio : {None, Some("bio")}]

InitProfileEditing ==
    /\ users = InitUsers
    /\ profiles \in StoredProfileTables
    /\ contents = InitContents
    /\ criteria = default_criteria
    /\ questions = InitQuestions
    /\ evaluations = <<>>
    /\ scores = <<>>
    /\ now = 0
    /\ arg = None
    /\ ret = [op |-> "none", val |-> None, log |-> "none"]
    /\ InitAnalytics

BecomeExpert == \E u \in {2, 3}, f \in ProfileForms : become_expert(u, f)

CreateExpertProfile ==
    \E u \in {2, 9}, d \in {<<"creative_writing">>, <<"poetry">>} :
        create_expert_profile(u, d, 5, None, None, FALSE)

NextProfileEditing ==
    \/ BecomeExpert
    \/ CreateExpertProfile

SpecProfileEditing == InitProfileEditing /\ [][NextProfileEditing]_vars

----------------------------------------------------------------------------
(* C14: a become_expert submission never grants verification: a user       *)
(* without a profile gets one with verified = false, a user with a         *)
(* profile keeps the verified value it had, and domains, experience,       *)
(* qualifications and bio are overwritten with the submitted values.       *)

ProfilesOfUser(table, u) == {p \in DOMAIN table : table[p].user_id = u}

AcceptedForm(f) ==
    /\ f.domains # <<>>
    /\ \A i \in DOMAIN f.domains :
          f.domains[i] \in {CONTENT_DOMAINS[j] : j \in DOMAIN CONTENT_DOMAINS}
    /\ f.years_experience \in 1..100

SubmissionKeepsVerification(u, f) ==
    (AcceptedForm(f) /\ become_expert(u, f)) =>
        /\ Cardinality(ProfilesOfUser(profiles', u)) = 1
        /\ \A p \in ProfilesOfUser(profiles', u) :
              /\ profiles'[p].verified =
                    IF ProfilesOfUser(profiles, u) = {} THEN FALSE ELSE profiles[p].verified
              /\ profiles'[p].domains = f.domains
              /\ profiles'[p].years_experience = f.years_experience
              /\ profiles'[p].qualifications = f.qualifications
              /\ profiles'[p].bio = f.bio
        /\ \A p \in DOMAIN profiles : profiles[p].user_id # u => profiles'[p] = profiles[p]

NoVerificationGranted ==
    /\ DOMAIN profiles \subseteq DOMAIN profiles'
    /\ \A p \in DOMAIN profiles' :
          profiles'[p].verified = TRUE => (p \in DOMAIN profiles /\ profiles[p].verified = TRUE)

----------------------------------------------------------------------------
(* utils.create_user *)

(* Variant: every role is accepted *)
any_role(role) == TRUE

valid_role(role) == role \in {"evaluator", "admin", "manager"}

(* (User.username == username) | (User.email == email) *)
user_exists(username, email) ==
    \E u \in DOMAIN users : users[u].username = username \/ users[u].email = email

(* The unique constraints of users.username and users.email *)
violates_unique(table, row) ==
    \E u \in DOMAIN table : table[u].username = row.username \/ table[u].email = row.email

new_user(username, email, role) ==
    [username |-> username, email |-> email, role |-> role, is_active |-> TRUE]

create_user(username, email, role) ==
    IF ~valid_role(role)
    THEN /\ ret' = [op |-> "create_user", val |-> None, log |-> "invalid role"]
         /\ UNCHANGED <<tables, evaluations, scores, now, arg>>
    ELSE IF ~created
    THEN /\ ret' = [op |-> "create_user", val |-> None, log |-> "error"]
         /\ UNCHANGED <<tables, evaluations, scores, now, arg>>
    ELSE IF user_exists(username, email)
    THEN /\ ret' = [op |-> "create_user", val |-> None, log |-> "already exists"]
         /\ UNCHANGED <<tables, evaluations, scores, now, arg>>
    ELSE IF violates_unique(users, new_user(username, email, role))
    THEN /\ ret' = [op |-> "create_user", val |-> None, log |-> "error"]
         /\ UNCHANGED <<tables, evaluations, scores, now, arg>>
    ELSE /\ users' = Append(users, new_user(username, email, role))
         /\ ret' = [op |-> "create_user", val |-> Some(Len(users) + 1), log |-> "created"]
         /\ UNCHANGED <<profiles, contents, criteria, questions, analytics,
                        evaluations, scores, now, arg>>

----------------------------------------------------------------------------
(* database.init_db *)

admin_user ==
    [username |-> "admin", email |-> "admin@example.com", role |-> "admin", is_active |-> TRUE]

(* Variant: the defaults are added whatever the table holds *)
criteria_always_needed(table) == TRUE

(* session.query(EvaluationCriterion).count() == 0 *)
criteria_needed(table) == Len(table) = 0

(* session.query(User).filter_by(username='admin').count() == 0 *)
admin_needed(table) == ~\E u \in DOMAIN table : table[u].username = "admin"

seeded_criteria == IF criteria_needed(criteria) THEN criteria \o default_criteria ELSE criteria

seeded_users == IF admin_needed(users) THEN Append(users, admin_user) ELSE users

(* failure: where the database fails in this run, if anywhere *)
init_db(failure) ==
    IF failure = "create_all"
    THEN /\ ret' = [op |-> "init_db", val |-> FALSE, log |-> "error"]
         /\ UNCHANGED <<tables, evaluations, scores, now, arg>>
    ELSE IF failure = "commit" \/ (admin_needed(users) /\ violates_unique(users, admin_user))
    THEN /\ created' = TRUE
         /\ ret' = [op |-> "init_db", val |-> FALSE, log |-> "error"]
         /\ UNCHANGED <<users, profiles, contents, criteria, questions,
                        suggestions, reports, session, evaluations, scores, now, arg,
                   exports, calls>>
    ELSE /\ created' = TRUE
         /\ criteria' = seeded_criteria
         /\ users' = seeded_users
         /\ ret' = [op |-> "init_db", val |-> TRUE, log |-> "initialized"]
         /\ UNCHANGED <<profiles, contents, questions, suggestions, reports, session,
                        evaluations, scores, now, arg,
                   exports, calls>>

----------------------------------------------------------------------------
(* Accounts: an empty database, start-up and account creation *)

Usernames == {"admin", "bob"}

Emails == {"admin@example.com", "bob@example.com", "eve@example.com"}

Roles == {"evaluator", "admin", "root"}

Failures == {"none", "create_all", "commit"}

InitAccounts ==
    /\ users = <<>>
    /\ profiles = <<>>
    /\ contents = <<>>
    /\ criteria = <<>>
    /\ questions = <<>>
    /\ evaluations = <<>>
    /\ scores = <<>>
    /\ now = 0
    /\ arg = None
    /\ ret = [op |-> "none", val |-> None, log |-> "none"]
    /\ created = FALSE
    /\ suggestions = <<>>
    /\ reports = <<>>
    /\ session = no_session
    /\ exports = <<>>
    /\ calls = no_calls

InitDb == \E f \in Failures : init_db(f)

CreateUser == \E n \in Usernames, e \in Emails, r \in Roles : create_user(n, e, r)

NextAccounts ==
    \/ InitDb
    \/ CreateUser

SpecAccounts == InitAccounts /\ [][NextAccounts]_vars

----------------------------------------------------------------------------
(* C15: after any sequence of create_user calls no two users share a       *)
(* username or an email; a call with a role other than evaluator, admin    *)
(* or manager, or with the username or the email of an existing user,      *)
(* returns None and leaves the User table unchanged; every created user    *)
(* is active.                                                              *)

UniqueAccounts ==
    \A u, v \in DOMAIN users :
        (users[u].username = users[v].username \/ users[u].email = users[v].email) => u = v

Taken(n, e) == \E u \in DOMAIN users : users[u].username = n \/ users[u].email = e

RejectedAccountChangesNothing(n, e, r) ==
    ((r \notin {"evaluator", "admin", "manager"} \/ Taken(n, e)) /\ create_user(n, e, r)) =>
        ret'.val = None /\ users' = users

CreatedAccountsActive ==
    ret'.op = "create_user" =>
        /\ SubSeq(users', 1, Len(users)) = users
        /\ \A u \in DOMAIN users' \ DOMAIN users : users'[u].is_active = TRUE

C15_UniqueAccounts ==
    /\ []UniqueAccounts
    /\ [][/\ CreatedAccountsActive
          /\ ret'.op = "create_user" =>
                \A n \in Usernames, e \in Emails, r \in Roles :
                    RejectedAccountChangesNothing(n, e, r)]_vars

C15_Witness ==
    /\ ret.op = "create_user" /\ ret.val = None /\ ret.log = "already exists"
    /\ Len(users) = 2
    /\ users[1].username = "bob" /\ users[1].role = "evaluator"
    /\ users[2] = [username |-> "admin", email |-> "admin@example.com", role |-> "admin",
                   is_active |-> TRUE]

----------------------------------------------------------------------------
(* C18: init_db seeds the six default criteria only when the criteria      *)
(* table is empty and the admin account only when no user is named         *)
(* 'admin', so that after a successful run, whatever ran before, there is  *)
(* exactly one user named 'admin' and no default criterion is duplicated;  *)
(* a run in which seeding fails returns False and persists no seed row.    *)

Admins(table) == {u \in DOMAIN table : table[u].username = "admin"}

CriteriaNamed(table, name) == {c \in DOMAIN table : table[c].name = name}

DefaultCriteriaOnce ==
    \A c \in DOMAIN criteria : Cardinality(CriteriaNamed(criteria, criteria[c].name)) = 1

SeedingIsIdempotent(f) ==
    init_db(f) =>
        IF ret'.val = TRUE
        THEN /\ Cardinality(Admins(users')) = 1
             /\ users' = IF Admins(users) = {} THEN Append(users, admin_user) ELSE users
             /\ criteria' = IF criteria = <<>> THEN default_criteria ELSE criteria
             /\ Len(criteria') = 6
        ELSE ret'.val = FALSE /\ users' = users /\ criteria' = criteria

AdminStaysUnique == Cardinality(Admins(users)) = 1 => Cardinality(Admins(users')) = 1

C18_SeedingIsIdempotent ==
    /\ []DefaultCriteriaOnce
    /\ [][/\ AdminStaysUnique
          /\ ret'.op = "init_db" => \A f \in Failures : SeedingIsIdempotent(f)]_vars

C18_Witness ==
    /\ ret.op = "init_db" /\ ret.val = FALSE
    /\ created = TRUE /\ criteria = <<>>
    /\ Len(users) = 1 /\ users[1].username = "bob" /\ users[1].email = "admin@example.com"

----------------------------------------------------------------------------
(* utils.import_content_from_json *)
(* A file is unreadable, holds JSON that is not a list, or holds a list    *)
(* of items.  An item is a JSON object, given by its keys and their        *)
(* values (Null for a null value, the text by its length), or a JSON       *)
(* number.                                                                 *)

MaxContents == 5

Null == "null"

required_fields == {"title", "text", "domain", "source_type"}

is_object(item) == item.json = "object"

(* all(field in item for field in required_fields) *)
has_required_fields(item) == \A field \in required_fields : field \in item.keys

(* Variant: the domain is not validated *)
any_domain(domain) == TRUE

(* item['domain'] in CONTENT_DOMAINS *)
known_domain(domain) == \E j \in DOMAIN CONTENT_DOMAINS : CONTENT_DOMAINS[j] = domain

known_source_type(source_type) == source_type \in {"ai", "human"}

item_accepted(item) ==
    /\ has_required_fields(item)
    /\ known_domain(item.domain)
    /\ known_source_type(item.source_type)

(* item.get('model_name') *)
item_model_name(item) ==
    IF "model_name" \notin item.keys \/ item.model_name = Null THEN None
    ELSE Some(item.model_name)

content_of(item) ==
    [text_len |-> item.text, domain |-> item.domain, source_type |-> item.source_type,
     model_name |-> item_model_name(item)]

(* `field in item` raises TypeError when the item is a number *)
RECURSIVE items_raise(_)
items_raise(data) ==
    IF data = <<>> THEN FALSE
    ELSE ~is_object(Head(data)) \/ items_raise(Tail(data))

(* The rows session.add has been called with when the loop ends *)
RECURSIVE added_contents(_)
added_contents(data) ==
    IF data = <<>> THEN <<>>
    ELSE IF item_accepted(Head(data))
         THEN <<Head(data)>> \o added_contents(Tail(data))
         ELSE added_contents(Tail(data))

(* Content.title and Content.text are nullable=False: the flush fails *)
violates_not_null(items) ==
    \E i \in DOMAIN items : items[i].title = Null

RECURSIVE content_rows(_)
content_rows(items) ==
    IF items = <<>> THEN <<>> ELSE <<content_of(Head(items))>> \o content_rows(Tail(items))

import_content_from_json(file) ==
    IF file.read # "list"
    THEN /\ ret' = [op |-> "import_content_from_json", val |-> <<0, 0>>, log |-> "error"]
         /\ UNCHANGED <<tables, evaluations, scores, now, arg>>
    ELSE IF \/ ~created
            \/ items_raise(file.data)
            \/ violates_not_null(added_contents(file.data))
    THEN /\ ret' = [op |-> "import_content_from_json", val |-> <<0, 0>>, log |-> "error"]
         /\ UNCHANGED <<tables, evaluations, scores, now, arg>>
    ELSE /\ Len(contents) + Len(added_contents(file.data)) <= MaxContents
         /\ contents' = contents \o content_rows(added_contents(file.data))
         /\ ret' = [op |-> "import_content_from_json",
                    val |-> <<Len(added_contents(file.data)), Len(file.data)>>,
                    log |-> "imported"]
         /\ UNCHANGED <<users, profiles, criteria, questions, analytics,
                        evaluations, scores, now, arg>>

----------------------------------------------------------------------------
(* Import: files of up to three items *)

AllKeys == required_fields \cup {"model_name"}

ObjectItem(keys, title, text, domain, source_type, model_name) ==
    [json |-> "object", keys |-> keys, title |-> title, text |-> text, domain |-> domain,
     source_type |-> source_type, model_name |-> model_name]

NumberItem ==
    [json |-> "number", keys |-> {}, title |-> Null, text |-> 0, domain |-> Null,
     source_type |-> Null, model_name |-> Null]

WellFormedItems ==
    {ObjectItem(AllKeys, "t", 1000, "creative_writing", "ai", "m1"),
     ObjectItem(required_fields, "t", 1300, "technical_documentation", "human", Null),
     ObjectItem(AllKeys \ {"text"}, "t", 0, "creative_writing", "ai", "m1"),
     ObjectItem(AllKeys, "t", 1000, "nonexistent", "ai", "m1"),
     ObjectItem(AllKeys, "t", 1000, "creative_writing", "robot", Null)}

Items ==
    WellFormedItems
    \cup {ObjectItem(AllKeys, Null, 1000, "creative_writing", "ai", "m1"), NumberItem}

ItemLists(S) == {<<>>} \cup {<<a>> : a \in S} \cup {<<a, b>> : a \in S, b \in S}
                \cup {<<a, b, c>> : a \in S, b \in S, c \in S}

Files ==
    {[read |-> "unreadable", data |-> <<>>], [read |-> "not a list", data |-> <<>>]}
    \cup {[read |-> "list", data |-> d] : d \in ItemLists(Items)}

ImportContentFromJson == \E file \in Files : import_content_from_json(file)

NextImport == ImportContentFromJson

SpecImport == Init /\ [][NextImport]_vars

----------------------------------------------------------------------------
(* C16: import_content_from_json over a list of N items returns (k, N),    *)
(* k being the number of items that have the four required fields, a      *)
(* domain of the fixed list and a source type ai or human, and adds        *)
(* exactly k Content rows; an invalid item is skipped without preventing   *)
(* the import of the valid items around it; a file that cannot be read or  *)
(* parsed as a list gives (0, 0) and adds nothing.                         *)

ImportableItem(item) ==
    /\ item.json = "object"
    /\ {"title", "text", "domain", "source_type"} \subseteq item.keys
    /\ item.domain \in {CONTENT_DOMAINS[j] : j \in DOMAIN CONTENT_DOMAINS}
    /\ item.source_type \in {"ai", "human"}

Importable(data) == {i \in DOMAIN data : ImportableItem(data[i])}

ImportCountsValidItems(file) ==
    import_content_from_json(file) =>
        /\ SubSeq(contents', 1, Len(contents)) = contents
        /\ IF file.read = "list"
           THEN /\ ret'.val = <<Cardinality(Importable(file.data)), Len(file.data)>>
                /\ Len(contents') = Len(contents) + Cardinality(Importable(file.data))
           ELSE ret'.val = <<0, 0>> /\ contents' = contents

C16_ImportCountsValidItems ==
    [][\A file \in Files : ImportCountsValidItems(file)]_vars

----------------------------------------------------------------------------
(* database.get_db_session *)
(* Session is a scoped_session: every scope a request opens, nested ones   *)
(* included, gets the same session object from Session().                  *)

MaxScopes == 3

MaxRows == 3

open_scopes == {k \in DOMAIN session.scopes : session.scopes[k].status = "open"}

(* The scope whose body is running *)
innermost == CHOOSE k \in open_scopes : \A j \in open_scopes : j <= k

pending_rows(table) ==
    SelectSeq(session.pending, LAMBDA r : r.table = table)

RECURSIVE rows_of(_)
rows_of(entries) ==
    IF entries = <<>> THEN <<>> ELSE <<Head(entries).row>> \o rows_of(Tail(entries))

(* session = Session(); yield session *)
enter_scope ==
    /\ ~session.raised
    /\ Len(session.scopes) < MaxScopes
    /\ session' = [session EXCEPT !.scopes = Append(@, [status |-> "open", added |-> {}])]
    /\ UNCHANGED <<users, profiles, contents, criteria, questions, created, suggestions,
                   reports, evaluations, scores, now, arg, ret,
                   exports, calls>>

new_suggestion(model_name, domain, criterion, text) ==
    [table |-> "suggestions", key |-> text,
     row |-> [model_name |-> model_name, domain |-> domain, criterion |-> criterion,
              status |-> "open", suggestion |-> text]]

new_report(report_type, title, results) ==
    [table |-> "reports", key |-> title,
     row |-> [report_type |-> report_type, title |-> title, results |-> results,
              created_by |-> None]]

(* session.add(row) in the body of the innermost scope *)
session_add(entry) ==
    /\ ~session.raised
    /\ open_scopes # {}
    /\ session.count < MaxRows
    /\ session' = [session EXCEPT !.pending = Append(@, entry),
                                  !.scopes[innermost].added = @ \cup {entry.key},
                                  !.count = @ + 1]
    /\ UNCHANGED <<users, profiles, contents, criteria, questions, created, suggestions,
                   reports, evaluations, scores, now, arg, ret,
                   exports, calls>>

(* The body ends normally: session.commit(), then session.close() *)
exit_scope ==
    /\ ~session.raised
    /\ open_scopes # {}
    /\ suggestions' = suggestions \o rows_of(pending_rows("suggestions"))
    /\ reports' = reports \o rows_of(pending_rows("reports"))
    /\ session' = [session EXCEPT !.pending = <<>>, !.scopes[innermost].status = "done"]
    /\ ret' = [op |-> "get_db_session", val |-> None, log |-> "committed"]
    /\ UNCHANGED <<users, profiles, contents, criteria, questions, created,
                   evaluations, scores, now, arg,
                   exports, calls>>

(* The body, or the commit, raises: session.rollback(), raise, session.close(); *)
(* also the step by which a propagating exception leaves the enclosing scope    *)
raise_in_scope ==
    /\ open_scopes # {}
    /\ session' = [session EXCEPT !.pending = <<>>, !.scopes[innermost].status = "raised",
                                  !.raised = TRUE]
    /\ ret' = [op |-> "get_db_session", val |-> None, log |-> "rolled back"]
    /\ UNCHANGED <<users, profiles, contents, criteria, questions, created, suggestions,
                   reports, evaluations, scores, now, arg,
                   exports, calls>>

(* try: with get_db_session() ... except Exception: return None *)
catch_exception ==
    /\ session.raised
    /\ session' = [session EXCEPT !.raised = FALSE]
    /\ ret' = [op |-> "save_analytics_report", val |-> None, log |-> "error"]
    /\ UNCHANGED <<users, profiles, contents, criteria, questions, created, suggestions,
                   reports, evaluations, scores, now, arg,
                   exports, calls>>

----------------------------------------------------------------------------
(* One request and the scopes it opens *)

(* The n-th row a request adds carries the text n *)
NextText == session.count + 1

EnterScope == enter_scope

AddSuggestion ==
    \E d \in {None, Some("creative_writing")} :
        session_add(new_suggestion("m1", d, "accuracy", NextText))

AddReport == session_add(new_report("improvement_areas", NextText, <<>>))

ExitScope == exit_scope

RaiseInScope == raise_in_scope

CatchException == catch_exception

NextSession ==
    \/ EnterScope
    \/ AddSuggestion
    \/ AddReport
    \/ ExitScope
    \/ RaiseInScope
    \/ CatchException

SpecSession == Init /\ [][NextSession]_vars

----------------------------------------------------------------------------
(* Claim C17 *)

CommittedTexts ==
    {suggestions[i].suggestion : i \in DOMAIN suggestions} \cup
    {reports[i].title : i \in DOMAIN reports}

PendingTexts == {session.pending[i].key : i \in DOMAIN session.pending}

(* A scope that ended normally has all its rows stored, a scope that raised *)
(* has none, and a scope still running has all its rows pending and none    *)
(* stored                                                                   *)
ScopeIsAllOrNothing(k) ==
    LET scope == session.scopes[k] IN
    /\ scope.status = "done" => scope.added \subseteq CommittedTexts
    /\ scope.status = "raised" => scope.added \cap CommittedTexts = {}
    /\ scope.status = "open" =>
          /\ scope.added \cap CommittedTexts = {}
          /\ ~session.raised => scope.added \subseteq PendingTexts

(* C17: the changes made in a get_db_session scope are committed together   *)
(* when its body ends normally and discarded together when it raises, also  *)
(* when scopes are nested: the commit or rollback of an inner scope neither *)
(* commits nor discards the pending changes of the scope around it.         *)
C17_ScopesAreAllOrNothing ==
    \A k \in DOMAIN session.scopes : ScopeIsAllOrNothing(k)


----------------------------------------------------------------------------
(* analytics.AnalyticsEngine: averages *)
(* An average is the exact fraction <<sum, count>>; the code's floats are  *)
(* taken as exact.                                                         *)

frac_less(a, b) == a[1] * b[2] < b[1] * a[2]

frac_equal(a, b) == a[1] * b[2] = b[1] * a[2]

frac_add(a, b) == <<a[1] * b[2] + b[1] * a[2], a[2] * b[2]>>

frac_sub(a, b) == <<a[1] * b[2] - b[1] * a[2], a[2] * b[2]>>

frac_div(a, n) == <<a[1], a[2] * n>>

zero == <<0, 1>>

(* The keys of a dict in insertion order: the items without repetitions *)
RECURSIVE first_seen(_)
first_seen(items) ==
    IF items = <<>> THEN <<>>
    ELSE LET front == first_seen(SubSeq(items, 1, Len(items) - 1))
             last == items[Len(items)]
         IN  IF in_list(last, front) THEN front ELSE Append(front, last)

RECURSIVE sum_scores(_)
sum_scores(rows) ==
    IF rows = <<>> THEN 0 ELSE Head(rows).score + sum_scores(Tail(rows))

(* func.avg(EvaluationScore.score), sum(scores) / len(scores) *)
avg_score(rows) == <<sum_scores(rows), Len(rows)>>

RECURSIVE sum_fracs(_, _)
sum_fracs(f, keys) ==
    IF keys = {} THEN zero
    ELSE LET k == MinOf(keys) IN frac_add(f[k], sum_fracs(f, keys \ {k}))

----------------------------------------------------------------------------
(* analytics.AnalyticsEngine.generate_model_comparison *)

DayMs == 86400000

timeframe_days(timeframe) ==
    CASE timeframe = "last_7_days" -> Some(7)
      [] timeframe = "last_30_days" -> Some(30)
      [] timeframe = "last_90_days" -> Some(90)
      [] timeframe = "last_year" -> Some(365)
      [] OTHER -> None

(* start_date <= t for start_date = end_date - timedelta(days); without a *)
(* known timeframe start_date is datetime(2000, 1, 1), before every stored  *)
(* time. Written on the age of t so that no product of days and             *)
(* milliseconds is formed.                                                  *)
after_start_date(t, timeframe) ==
    LET days == timeframe_days(timeframe)
        age == now - t
    IN  days # None =>
            \/ age \div DayMs < days[1]
            \/ age \div DayMs = days[1] /\ age % DayMs = 0

(* criteria_ids: None without the filter, else the ids of the known names *)
criteria_ids_of(criteria_names) ==
    IF list_given(criteria_names)
    THEN {c \in DOMAIN criteria : in_list(criteria[c].name, criteria_names[1])}
    ELSE {}

ai_content_ids(model_name, domains) ==
    {c \in DOMAIN contents :
        /\ contents[c].model_name = Some(model_name)
        /\ contents[c].source_type = "ai"
        /\ list_given(domains) => in_list(contents[c].domain, domains[1])}

(* Evaluation.completion_time.between(start_date, end_date): a pending *)
(* evaluation has no completion time and never matches                 *)
in_timeframe(evaluation, timeframe) ==
    /\ evaluation.completion_time # None
    /\ after_start_date(evaluation.completion_time[1], timeframe)
    /\ evaluation.completion_time[1] <= now

(* Evaluation.passed_quality_checks != False, as SQL compares: a row  *)
(* without a value does not match                                     *)
not_failed(evaluation) == evaluation.passed_quality_checks = Some(TRUE)

compared_evaluation_ids(content_ids, timeframe) ==
    {e \in DOMAIN evaluations :
        /\ evaluations[e].content_id \in content_ids
        /\ in_timeframe(evaluations[e], timeframe)
        /\ not_failed(evaluations[e])}

score_rows(evaluation_ids, criterion_id) ==
    SelectSeq(scores, LAMBDA r : r.evaluation_id \in evaluation_ids
                                 /\ r.criterion_id = criterion_id)

(* The grouped query: the average per criterion that has a score row *)
model_criteria_scores(evaluation_ids, criteria_ids) ==
    LET grouped == {c \in DOMAIN criteria :
                       /\ score_rows(evaluation_ids, c) # <<>>
                       /\ criteria_ids # {} => c \in criteria_ids}
    IN  [c \in grouped |-> avg_score(score_rows(evaluation_ids, c))]

overall_score(criteria_scores) ==
    IF DOMAIN criteria_scores = {} THEN zero
    ELSE frac_div(sum_fracs(criteria_scores, DOMAIN criteria_scores),
                  Cardinality(DOMAIN criteria_scores))

(* results["models"][model_name] *)
model_result(model_name, domains, criteria_names, timeframe) ==
    LET evaluation_ids ==
            compared_evaluation_ids(ai_content_ids(model_name, domains), timeframe)
    IN  [score |-> overall_score(model_criteria_scores(evaluation_ids,
                                                       criteria_ids_of(criteria_names))),
         evaluations |-> Cardinality(evaluation_ids)]

(* total_evaluations += len(evaluation_ids), once per requested name *)
RECURSIVE total_evaluations(_, _, _, _)
total_evaluations(model_names, domains, criteria_names, timeframe) ==
    IF model_names = <<>> THEN 0
    ELSE model_result(Head(model_names), domains, criteria_names, timeframe).evaluations
         + total_evaluations(Tail(model_names), domains, criteria_names, timeframe)

(* The keys of results["models"] in the order they were first stored *)
model_keys(model_names) == first_seen(model_names)

(* An entry goes after the entries whose score is as high or higher *)
RECURSIVE insert_ranked(_, _)
insert_ranked(entry, ranking) ==
    IF ranking = <<>> THEN <<entry>>
    ELSE IF frac_less(Head(ranking).score, entry.score)
    THEN <<entry>> \o ranking
    ELSE <<Head(ranking)>> \o insert_ranked(entry, Tail(ranking))

(* model_scores.sort(key=lambda x: x[1], reverse=True): stable *)
RECURSIVE sort_ranking(_)
sort_ranking(entries) ==
    IF entries = <<>> THEN <<>>
    ELSE insert_ranked(entries[Len(entries)],
                       sort_ranking(SubSeq(entries, 1, Len(entries) - 1)))

comparison_results(model_names, domains, criteria_names, timeframe) ==
    LET keys == model_keys(model_names)
        models == [m \in {keys[i] : i \in DOMAIN keys} |->
                      model_result(m, domains, criteria_names, timeframe)]
    IN  [models |-> models,
         overall_ranking |->
             sort_ranking([i \in DOMAIN keys |->
                              [model |-> keys[i], score |-> models[keys[i]].score]]),
         timeframe |-> timeframe,
         total_evaluations_analyzed |->
             total_evaluations(model_names, domains, criteria_names, timeframe)]

MaxReports == 1

(* save_analytics_report: the report is added and committed in a scope of *)
(* its own                                                                *)
saved_reports(report_type, title, results) ==
    Append(reports, new_report(report_type, title, results).row)

generate_model_comparison(model_names, domains, criteria_names, timeframe) ==
    LET results == comparison_results(model_names, domains, criteria_names, timeframe) IN
    /\ Len(reports) < MaxReports
    /\ reports' = saved_reports("model_comparison", <<"Model Comparison", timeframe>>, results)
    /\ ret' = [op |-> "generate_model_comparison", val |-> results, log |-> "none"]
    /\ UNCHANGED <<users, profiles, contents, criteria, questions, created, suggestions,
                   session, evaluations, scores, now, arg,
                   exports, calls>>


----------------------------------------------------------------------------
(* analytics.AnalyticsEngine.identify_improvement_areas *)

IMPROVEMENT_THRESHOLD == <<3, 10>>

ids_of(table) == [i \in 1..Len(table) |-> i]

model_content_ids(model_name) ==
    SelectSeq(ids_of(contents), LAMBDA c : /\ contents[c].model_name = Some(model_name)
                                           /\ contents[c].source_type = "ai")

human_content_ids ==
    SelectSeq(ids_of(contents), LAMBDA c : contents[c].source_type = "human")

(* Evaluation.passed_quality_checks != False, completion_time IS NOT NULL *)
scored_evaluation_ids(content_ids) ==
    {e \in DOMAIN evaluations :
        /\ in_list(evaluations[e].content_id, content_ids)
        /\ not_failed(evaluations[e])
        /\ evaluations[e].completion_time # None}

(* EvaluationScore joined with EvaluationCriterion *)
joined_scores(evaluation_ids) ==
    SelectSeq(scores, LAMBDA r : /\ r.evaluation_id \in evaluation_ids
                                 /\ Exists(criteria, r.criterion_id))

domain_of(row) == contents[evaluations[row.evaluation_id].content_id].domain

criterion_rows(rows, criterion_id) ==
    SelectSeq(rows, LAMBDA r : r.criterion_id = criterion_id)

domain_rows(rows, domain) == SelectSeq(rows, LAMBDA r : domain_of(r) = domain)

criteria_in(rows) == first_seen([i \in DOMAIN rows |-> rows[i].criterion_id])

domains_in(rows) == first_seen([i \in DOMAIN rows |-> domain_of(rows[i])])

(* result["criteria"], result["domains"] and the rows they average *)
collected_scores(content_ids) ==
    LET rows == joined_scores(scored_evaluation_ids(content_ids))
        cs == criteria_in(rows)
        ds == domains_in(rows)
    IN  [rows |-> rows,
         criteria |-> [c \in {cs[i] : i \in DOMAIN cs} |-> avg_score(criterion_rows(rows, c))],
         domains |-> [d \in {ds[i] : i \in DOMAIN ds} |-> avg_score(domain_rows(rows, d))]]

get_model_scores(model_name) == collected_scores(model_content_ids(model_name))

get_human_benchmark_scores == collected_scores(human_content_ids)

(* if comparison_model: ... if not comparison_scores["criteria"]: fall back *)
comparison_scores(comparison_model) ==
    IF /\ filter_given(comparison_model)
       /\ DOMAIN get_model_scores(comparison_model[1]).criteria # {}
    THEN get_model_scores(comparison_model[1])
    ELSE get_human_benchmark_scores

(* gap >= threshold *)
gap_reaches(model_score, comparison_score, threshold) ==
    ~frac_less(frac_sub(comparison_score, model_score), threshold)

criteria_to_improve(model_scores, benchmark, threshold) ==
    SelectSeq(criteria_in(model_scores.rows),
              LAMBDA c : /\ c \in DOMAIN benchmark.criteria
                         /\ gap_reaches(model_scores.criteria[c], benchmark.criteria[c],
                                        threshold))

domains_to_improve(model_scores, benchmark, threshold) ==
    SelectSeq(domains_in(model_scores.rows),
              LAMBDA d : /\ d \in DOMAIN benchmark.domains
                         /\ gap_reaches(model_scores.domains[d], benchmark.domains[d],
                                        threshold))

(* sorted(domain_criteria_avg.items(), key=lambda x: x[1])[0]: the first *)
(* criterion of the domain with the lowest average                       *)
worst_criterion(model_scores, domain) ==
    LET rows == domain_rows(model_scores.rows, domain)
        cs == criteria_in(rows)
        average(i) == avg_score(criterion_rows(rows, cs[i]))
        first == CHOOSE i \in DOMAIN cs :
                    /\ \A j \in DOMAIN cs : ~frac_less(average(j), average(i))
                    /\ \A j \in 1..(i - 1) : frac_less(average(i), average(j))
    IN  [criterion |-> cs[first], score |-> average(first)]

(* isinstance(target_score, float): every average is a float *)
is_float(score) == score # None

(* target_formatted = f"{target_formatted:.2f}" if isinstance(target_score, float) *)
(* reads target_formatted before it is assigned: UnboundLocalError                  *)
format_raises(target_score) == is_float(target_score)

priority_of(current_score, target_score) ==
    LET score_gap == IF is_float(target_score) THEN frac_sub(target_score, current_score)
                     ELSE zero
    IN  IF ~frac_less(score_gap, <<1, 1>>) THEN "high"
        ELSE IF ~frac_less(score_gap, <<1, 2>>) THEN "medium"
        ELSE "low"

create_improvement_suggestion(model_name, domain, criterion, current_score, target_score) ==
    [raised |-> format_raises(target_score),
     model_name |-> model_name,
     domain |-> IF filter_given(domain) THEN domain ELSE None,
     criterion |-> criterion,
     current_score |-> current_score,
     target_score |-> target_score,
     priority |-> priority_of(current_score, target_score)]

domain_suggestions(model_name, model_scores, benchmark, threshold) ==
    LET ds == domains_to_improve(model_scores, benchmark, threshold) IN
    [i \in DOMAIN ds |->
        LET worst == worst_criterion(model_scores, ds[i]) IN
        create_improvement_suggestion(model_name, Some(ds[i]), criteria[worst.criterion].name,
                                      worst.score, benchmark.domains[ds[i]])]

general_suggestions(model_name, model_scores, benchmark, threshold, existing) ==
    LET cs == SelectSeq(criteria_to_improve(model_scores, benchmark, threshold),
                        LAMBDA c : \A i \in DOMAIN existing :
                                      existing[i].criterion # criteria[c].name)
    IN  [i \in DOMAIN cs |->
            create_improvement_suggestion(model_name, None, criteria[cs[i]].name,
                                          model_scores.criteria[cs[i]],
                                          benchmark.criteria[cs[i]])]

improvement_suggestions(model_name, model_scores, benchmark, threshold) ==
    LET specific == domain_suggestions(model_name, model_scores, benchmark, threshold) IN
    specific \o general_suggestions(model_name, model_scores, benchmark, threshold, specific)

(* ImprovementSuggestion(...), status="open" *)
suggestion_rows(found) ==
    [i \in DOMAIN found |->
        new_suggestion(found[i].model_name, found[i].domain, found[i].criterion,
                       <<"Improve", found[i].criterion, found[i].domain>>).row]

(* ImprovementSuggestion.domain: nullable=False *)
violates_domain_not_null(rows) == \E i \in DOMAIN rows : rows[i].domain = None

identify_improvement_areas(model_name, threshold, comparison_model) ==
    LET model_scores == get_model_scores(model_name)
        benchmark == comparison_scores(comparison_model)
        found == improvement_suggestions(model_name, model_scores, benchmark, threshold)
        results == [model_name |-> model_name,
                    suggestions |-> found,
                    domains_to_improve |-> domains_to_improve(model_scores, benchmark, threshold),
                    criteria_to_improve |-> criteria_to_improve(model_scores, benchmark, threshold)]
    IN
    /\ Len(reports) < MaxReports
    /\ IF DOMAIN model_scores.criteria = {}
       THEN /\ ret' = [op |-> "identify_improvement_areas",
                       val |-> [model_name |-> model_name, error |-> "No evaluation data"],
                       log |-> "returned"]
            /\ UNCHANGED <<suggestions, reports>>
       ELSE IF \E i \in DOMAIN found : found[i].raised
       THEN (* the exception leaves the scope: rollback, raise *)
            /\ ret' = [op |-> "identify_improvement_areas", val |-> None, log |-> "raised"]
            /\ UNCHANGED <<suggestions, reports>>
       ELSE IF violates_domain_not_null(suggestion_rows(found))
       THEN (* the commit in save_analytics_report fails and is rolled back; *)
            (* its exception is logged and the results are returned           *)
            /\ ret' = [op |-> "identify_improvement_areas", val |-> results, log |-> "returned"]
            /\ UNCHANGED <<suggestions, reports>>
       ELSE /\ suggestions' = suggestions \o suggestion_rows(found)
            /\ reports' = saved_reports("improvement_areas", <<"Improvement Areas", model_name>>,
                                        results)
            /\ ret' = [op |-> "identify_improvement_areas", val |-> results, log |-> "returned"]
    /\ UNCHANGED <<users, profiles, contents, criteria, questions, created,
                   session, evaluations, scores, now, arg,
                   exports, calls>>

----------------------------------------------------------------------------
(* Analytics over evaluations of two models and of human content *)

AnalysedContents ==
    <<[text_len |-> 1000, domain |-> "creative_writing", source_type |-> "ai",    model_name |-> Some("m1")],
      [text_len |-> 1300, domain |-> "creative_writing", source_type |-> "human", model_name |-> None],
      [text_len |-> 800,  domain |-> "creative_writing", source_type |-> "ai",    model_name |-> Some("m2")]>>

InitAnalysis ==
    /\ users = InitUsers
    /\ profiles = InitProfiles
    /\ contents = AnalysedContents
    /\ criteria = default_criteria
    /\ questions = InitQuestions
    /\ evaluations = <<>>
    /\ scores = <<>>
    /\ now = 0
    /\ arg = None
    /\ ret = [op |-> "none", val |-> None, log |-> "none"]
    /\ InitAnalytics

AnalysedScores == {<<2>>, <<5>>, <<4, 3>>}

AnalysedAnswers == {None, Some(<<<<"n", "o">>>>)}

ModelNameLists ==
    {<<"m1">>, <<"m1", "m2">>, <<"m2", "m1">>, <<"m1", "m1">>, <<"m3", "m2">>}

DomainFilters == {None, Some(<<"marketing_copy">>)}

CriteriaFilters == {None, Some(<<"accuracy">>)}

Timeframes == {"last_30_days", "all_time"}

Thresholds == {IMPROVEMENT_THRESHOLD, <<5, 1>>}

ComparisonModels == {None, Some("m2")}

StartAnalysed == \E c \in DOMAIN AnalysedContents : start_evaluation(2, c)

SubmitAnalysed ==
    \E e \in 1..MaxEvals, m \in AnalysedScores, a \in AnalysedAnswers :
        submit_evaluation(e, m, 4, None, a)

GenerateModelComparison ==
    \E model_names \in ModelNameLists, domains \in DomainFilters,
       criteria_names \in CriteriaFilters, timeframe \in Timeframes :
        generate_model_comparison(model_names, domains, criteria_names, timeframe)

IdentifyImprovementAreas ==
    \E model_name \in {"m1", "m3"}, threshold \in Thresholds,
       comparison_model \in ComparisonModels :
        identify_improvement_areas(model_name, threshold, comparison_model)

NextAnalysis ==
    \/ StartAnalysed
    \/ SubmitAnalysed
    \/ GenerateModelComparison
    \/ IdentifyImprovementAreas

SpecAnalysis == InitAnalysis /\ [][NextAnalysis]_vars


----------------------------------------------------------------------------
(* Claim C19 *)

RECURSIVE SumOfEvaluations(_, _)
SumOfEvaluations(models, names) ==
    IF names = {} THEN 0
    ELSE LET m == CHOOSE m \in names : TRUE
         IN  models[m].evaluations + SumOfEvaluations(models, names \ {m})

RankedOnce(results) ==
    LET ranking == results.overall_ranking IN
    /\ Len(ranking) = Cardinality(DOMAIN results.models)
    /\ \A m \in DOMAIN results.models :
          \E i \in DOMAIN ranking :
              ranking[i].model = m /\ ranking[i].score = results.models[m].score

NonIncreasing(ranking) ==
    \A i, j \in DOMAIN ranking : i < j => ~frac_less(ranking[i].score, ranking[j].score)

(* C19: the result of generate_model_comparison has total_evaluations_analyzed *)
(* equal to the sum of the 'evaluations' counts of the models in its 'models'  *)
(* entry, also when a model name was requested more than once, and its         *)
(* overall_ranking holds each of those models exactly once in non-increasing   *)
(* score order (which fixes the ranking when no two models tie).               *)
C19_TotalAndRanking ==
    ret.op = "generate_model_comparison" =>
        /\ ret.val.total_evaluations_analyzed =
               SumOfEvaluations(ret.val.models, DOMAIN ret.val.models)
        /\ RankedOnce(ret.val)
        /\ NonIncreasing(ret.val.overall_ranking)

----------------------------------------------------------------------------
(* Claim C20 *)

GapFound(model_name, threshold, comparison_model) ==
    LET model_scores == get_model_scores(model_name)
        benchmark == comparison_scores(comparison_model)
    IN  /\ DOMAIN model_scores.criteria # {}
        /\ \/ criteria_to_improve(model_scores, benchmark, threshold) # <<>>
           \/ domains_to_improve(model_scores, benchmark, threshold) # <<>>

SuggestionsPersisted ==
    /\ ret'.log = "returned"
    /\ "suggestions" \in DOMAIN ret'.val
    /\ Len(suggestions') = Len(suggestions) + Len(ret'.val.suggestions)
    /\ \A i \in DOMAIN ret'.val.suggestions :
          LET row == suggestions'[Len(suggestions) + i] IN
          /\ row.status = "open"
          /\ row.domain = ret'.val.suggestions[i].domain
          /\ row.criterion = ret'.val.suggestions[i].criterion
    /\ Len(reports') = Len(reports) + 1
    /\ reports'[Len(reports')].report_type = "improvement_areas"
    /\ reports'[Len(reports')].results = ret'.val

(* C20: whenever identify_improvement_areas finds a criterion or domain gap of *)
(* at least the threshold, it returns a result and afterwards there is one new *)
(* ImprovementSuggestion row with status 'open' per returned suggestion, with  *)
(* the suggestion's domain or none, and exactly one new AnalyticsReport of     *)
(* type 'improvement_areas' holding the result.                                *)
C20_SuggestionsPersisted ==
    [][\A model_name \in {"m1", "m3"}, threshold \in Thresholds,
          comparison_model \in ComparisonModels :
           (/\ GapFound(model_name, threshold, comparison_model)
            /\ identify_improvement_areas(model_name, threshold, comparison_model))
           => SuggestionsPersisted]_vars


----------------------------------------------------------------------------
(* analytics.AnalyticsEngine.save_analytics_report, get_analytics_report *)

MaxSavedReports == 3

(* save_analytics_report called on its own: one scope, one row *)
save_analytics_report(report_type, title, results, user_id) ==
    /\ Len(reports) < MaxSavedReports
    /\ reports' = Append(reports, [new_report(report_type, title, results).row
                                      EXCEPT !.created_by = user_id])
    /\ ret' = [op |-> "save_analytics_report", val |-> Some(Len(reports) + 1), log |-> "saved"]
    /\ UNCHANGED <<users, profiles, contents, criteria, questions, created, suggestions,
                   session, evaluations, scores, now, arg,
                   exports, calls>>

(* The keys of the dict get_analytics_report builds: created_by is not one *)
report_keys == {"id", "report_type", "title", "description", "parameters", "results",
                "created_at"}

(* The dict of a stored report, None for a missing id *)
get_analytics_report(report_id) ==
    IF ~Exists(reports, report_id) THEN None
    ELSE Some([keys |-> report_keys, id |-> report_id,
               report_type |-> reports[report_id].report_type,
               title |-> reports[report_id].title,
               created_by |-> reports[report_id].created_by])

(* report.get('created_by') *)
get_created_by(report) ==
    IF "created_by" \in report.keys THEN report.created_by ELSE None

----------------------------------------------------------------------------
(* interfaces.dashboard: is_admin, view_report, api_report *)

(* current_user is the logged-in user: login_required has let the request in *)
is_admin(current_user) == users[current_user].role = "admin"

(* not is_admin() and report.get('created_by') != current_user.id *)
permission_refused(current_user, report) ==
    ~is_admin(current_user) /\ get_created_by(report) # Some(current_user)

view_report(current_user, report_id) ==
    LET report == get_analytics_report(report_id) IN
    /\ ret' = [op |-> "view_report",
               val |-> [user |-> current_user, report_id |-> report_id],
               log |-> IF report = None THEN "Report not found"
                       ELSE IF permission_refused(current_user, report[1]) THEN "redirect"
                       ELSE "rendered"]
    /\ UNCHANGED <<tables, evaluations, scores, now, arg>>

api_report(current_user, report_id) ==
    LET report == get_analytics_report(report_id) IN
    /\ ret' = [op |-> "api_report",
               val |-> [user |-> current_user, report_id |-> report_id],
               log |-> IF report = None THEN "404"
                       ELSE IF permission_refused(current_user, report[1]) THEN "403"
                       ELSE "200"]
    /\ UNCHANGED <<tables, evaluations, scores, now, arg>>

----------------------------------------------------------------------------
(* Reports saved with and without a creator, read by an admin and two users *)

ReportTypes == {"model_comparison", "improvement_areas"}

Creators == {None, Some(1), Some(2)}

LoggedIn == {1, 2, 3}

ReportIds == 1..(MaxSavedReports + 1)

SaveAnalyticsReport ==
    \E t \in ReportTypes, u \in Creators : save_analytics_report(t, t, <<>>, u)

ViewReport == \E u \in LoggedIn, r \in ReportIds : view_report(u, r)

ApiReport == \E u \in LoggedIn, r \in ReportIds : api_report(u, r)

NextReports ==
    \/ SaveAnalyticsReport
    \/ ViewReport
    \/ ApiReport

SpecReports == Init /\ [][NextReports]_vars

----------------------------------------------------------------------------
(* Claim C21 *)

MayOpen(user, report_id) ==
    users[user].role = "admin" \/ reports[report_id].created_by = Some(user)

Outcome(found, refused, missing) ==
    IF ret.val.report_id \notin DOMAIN reports THEN ret.log = missing
    ELSE IF MayOpen(ret.val.user, ret.val.report_id) THEN ret.log = found
    ELSE ret.log = refused

(* C21: the report page and the JSON endpoint apply the same ownership check:  *)
(* a missing report id gives 'Report not found' / 404, an existing report is   *)
(* shown to an admin and to the user who created it, and any other user is     *)
(* redirected / gets 403; so a user who is not an admin opens their own report *)
C21_OwnershipCheck ==
    /\ ret.op = "view_report" => Outcome("rendered", "redirect", "Report not found")
    /\ ret.op = "api_report" => Outcome("200", "403", "404")


----------------------------------------------------------------------------
(* analytics.AnalyticsEngine.analyze_human_ai_gap, utils.export_evaluations_to_csv *)

MaxExports == 1

ai_models == {contents[c].model_name[1] :
                 c \in {c \in DOMAIN contents : /\ contents[c].source_type = "ai"
                                                /\ filter_given(contents[c].model_name)}}

(* The criteria that get a gap entry: scored for human content and for a model *)
criteria_gaps ==
    {c \in DOMAIN get_human_benchmark_scores.criteria :
        \E m \in ai_models : c \in DOMAIN get_model_scores(m).criteria}

(* "error" without human benchmark data or without AI models; else the *)
(* report is saved and the results are returned                        *)
human_ai_gap_fails ==
    DOMAIN get_human_benchmark_scores.criteria = {} \/ ai_models = {}

(* filters: a record of optional domain, model_name and source_type *)
export_matches(e, filters) ==
    LET evaluation == evaluations[e] IN
    /\ Exists(users, evaluation.evaluator_id)
    /\ Exists(contents, evaluation.content_id)
    /\ filter_given(filters.domain) =>
           contents[evaluation.content_id].domain = filters.domain[1]
    /\ filter_given(filters.model_name) =>
           contents[evaluation.content_id].model_name = filters.model_name
    /\ filter_given(filters.source_type) =>
           contents[evaluation.content_id].source_type = filters.source_type[1]
    /\ evaluation.completion_time # None

exported_ids(filters) == {e \in DOMAIN evaluations : export_matches(e, filters)}

----------------------------------------------------------------------------
(* interfaces.dashboard: the routes and their decorators *)

(* admin_required: the view runs for an administrator, else redirect *)
admin_required(current_user) == is_admin(current_user)

(* login_required: every logged-in user gets to the view *)
login_required(current_user) == TRUE

page(route, current_user, outcome) ==
    ret' = [op |-> route, val |-> [user |-> current_user], log |-> outcome]

(* admin, quality_issues, evaluator_analysis, improvement_suggestions: pages *)
(* that read and render                                                      *)
admin_page(route, current_user) ==
    /\ page(route, current_user,
            IF admin_required(current_user) THEN "rendered" ELSE "redirect")
    /\ UNCHANGED <<tables, evaluations, scores, now, arg>>

unchanged_but_reports ==
    UNCHANGED <<users, profiles, contents, criteria, questions, created, suggestions,
                session, exports, evaluations, scores, now, arg,
                   calls>>

model_comparison(current_user, selected_models, selected_domains, timeframe) ==
    IF ~login_required(current_user)
    THEN /\ page("model_comparison", current_user, "redirect")
         /\ UNCHANGED <<tables, evaluations, scores, now, arg>>
    ELSE IF selected_models = <<>>
    THEN /\ page("model_comparison", current_user, "rendered")
         /\ UNCHANGED <<tables, evaluations, scores, now, arg>>
    ELSE /\ Len(reports) < MaxReports
         /\ reports' = saved_reports("model_comparison", <<"Model Comparison", timeframe>>,
                                     comparison_results(selected_models, selected_domains,
                                                        None, timeframe))
         /\ page("model_comparison", current_user, "view_report")
         /\ unchanged_but_reports

improvement_analysis(current_user, model_name, comparison_model) ==
    LET model_scores == get_model_scores(model_name)
        benchmark == comparison_scores(comparison_model)
        found == improvement_suggestions(model_name, model_scores, benchmark,
                                         IMPROVEMENT_THRESHOLD)
    IN
    IF ~login_required(current_user)
    THEN /\ page("improvement_analysis", current_user, "redirect")
         /\ UNCHANGED <<tables, evaluations, scores, now, arg>>
    ELSE IF model_name = ""
    THEN /\ page("improvement_analysis", current_user, "rendered")
         /\ UNCHANGED <<tables, evaluations, scores, now, arg>>
    ELSE IF DOMAIN model_scores.criteria = {}
    THEN /\ page("improvement_analysis", current_user, "error")
         /\ UNCHANGED <<tables, evaluations, scores, now, arg>>
    ELSE IF \E i \in DOMAIN found : found[i].raised
    THEN /\ page("improvement_analysis", current_user, "raised")
         /\ UNCHANGED <<tables, evaluations, scores, now, arg>>
    ELSE IF violates_domain_not_null(suggestion_rows(found))
    THEN /\ page("improvement_analysis", current_user, "report not found")
         /\ UNCHANGED <<tables, evaluations, scores, now, arg>>
    ELSE /\ Len(reports) < MaxReports
         /\ suggestions' = suggestions \o suggestion_rows(found)
         /\ reports' = saved_reports("improvement_areas", <<"Improvement Areas", model_name>>,
                                     found)
         /\ page("improvement_analysis", current_user, "view_report")
         /\ UNCHANGED <<users, profiles, contents, criteria, questions, created,
                        session, exports, evaluations, scores, now, arg,
                   calls>>

human_ai_gap(current_user, run_analysis) ==
    IF ~login_required(current_user)
    THEN /\ page("human_ai_gap", current_user, "redirect")
         /\ UNCHANGED <<tables, evaluations, scores, now, arg>>
    ELSE IF ~run_analysis
    THEN /\ page("human_ai_gap", current_user, "rendered")
         /\ UNCHANGED <<tables, evaluations, scores, now, arg>>
    ELSE IF human_ai_gap_fails
    THEN /\ page("human_ai_gap", current_user, "error")
         /\ UNCHANGED <<tables, evaluations, scores, now, arg>>
    ELSE /\ Len(reports) < MaxReports
         /\ reports' = saved_reports("human_ai_gap", <<"Human vs AI">>, criteria_gaps)
         /\ page("human_ai_gap", current_user, "view_report")
         /\ unchanged_but_reports

export_evaluations(current_user, filters) ==
    IF ~login_required(current_user)
    THEN /\ page("export_evaluations", current_user, "redirect")
         /\ UNCHANGED <<tables, evaluations, scores, now, arg>>
    ELSE IF exported_ids(filters) = {}
    THEN /\ page("export_evaluations", current_user, "Failed to export evaluations")
         /\ UNCHANGED <<tables, evaluations, scores, now, arg>>
    ELSE /\ Len(exports) < MaxExports
         /\ exports' = Append(exports, [filters |-> filters,
                                        count |-> Cardinality(exported_ids(filters))])
         /\ page("export_evaluations", current_user, "static file")
         /\ UNCHANGED <<users, profiles, contents, criteria, questions, created, suggestions,
                        reports, session, evaluations, scores, now, arg,
                   calls>>

----------------------------------------------------------------------------
(* The dashboard used by an administrator and by an evaluator *)

DashboardUsers == {1, 2}

AdminPages == {"admin", "quality_issues", "evaluator_analysis", "improvement_suggestions"}

ExportFilters ==
    {[domain |-> None, model_name |-> None, source_type |-> None],
     [domain |-> None, model_name |-> None, source_type |-> Some("human")]}

StartShown == \E c \in {1, 2} : start_evaluation(2, c)

SubmitShown ==
    \E e \in 1..MaxEvals, m \in {<<3>>, <<5>>} : submit_evaluation(e, m, 4, None, None)

AdminPage == \E r \in AdminPages, u \in DashboardUsers : admin_page(r, u)

ModelComparison ==
    \E u \in DashboardUsers, models \in {<<>>, <<"m1">>} :
        model_comparison(u, models, None, "all_time")

ImprovementAnalysis ==
    \E u \in DashboardUsers, m \in {"", "m1"} : improvement_analysis(u, m, None)

HumanAiGap == \E u \in DashboardUsers, run \in BOOLEAN : human_ai_gap(u, run)

ExportEvaluations ==
    \E u \in DashboardUsers, f \in ExportFilters : export_evaluations(u, f)

NextDashboard ==
    \/ StartShown
    \/ SubmitShown
    \/ AdminPage
    \/ ModelComparison
    \/ ImprovementAnalysis
    \/ HumanAiGap
    \/ ExportEvaluations

SpecDashboard == InitAnalysis /\ [][NextDashboard]_vars

----------------------------------------------------------------------------
(* Claim C22 *)

AdminOperations ==
    AdminPages \cup {"model_comparison", "improvement_analysis", "human_ai_gap",
                     "export_evaluations"}

NothingCreated ==
    /\ reports' = reports
    /\ suggestions' = suggestions
    /\ exports' = exports

(* C22: the operations of the administrative dashboard (model comparison,     *)
(* improvement analysis, human/AI gap analysis, CSV export, the admin, quality *)
(* issues, evaluator and improvement suggestion pages) run only for a user of  *)
(* role admin; for any other user the request is redirected and no report,     *)
(* suggestion or export file is created.                                       *)
C22_AdminOnly ==
    [][(ret'.op \in AdminOperations /\ users[ret'.val.user].role # "admin")
        => (ret'.log = "redirect" /\ NothingCreated)]_vars


----------------------------------------------------------------------------
(* evaluator.Evaluator.start_evaluation, assign_content_to_experts: the    *)
(* queries and the insert of a call as separate steps of a worker          *)

MaxRacedEvals == 4

RECURSIVE in_flight(_)
in_flight(workers) ==
    IF workers = {} THEN 0
    ELSE LET w == CHOOSE w \in workers : TRUE
         IN  (IF "new_rows" \in DOMAIN calls[w] THEN Len(calls[w].new_rows) ELSE 0)
             + in_flight(workers \ {w})

room_for(n) == Len(evaluations) + in_flight(Workers) + n <= MaxRacedEvals

(* Variant: only the rows whose pair has no row at the time of the insert *)
rows_not_existing(evals, rows) ==
    SelectSeq(rows, LAMBDA r : existing_evaluations(evals, r.evaluator_id, r.content_id) = {})

(* session.add(evaluation) ... session.commit(): the rows are inserted *)
(* whatever the table holds by then                                    *)
rows_to_insert(evals, rows) == rows

(* session.query(User).get, session.query(Content).get, the query for an *)
(* existing evaluation                                                   *)
start_evaluation_read(w, user_id, content_id) ==
    /\ calls[w] = idle
    /\ IF ~Exists(users, user_id) \/ ~Exists(contents, content_id)
       THEN /\ ret' = [op |-> "start_evaluation", val |-> None, log |-> "not_found"]
            /\ UNCHANGED calls
       ELSE IF first_existing(evaluations, user_id, content_id) # 0
       THEN /\ ret' = [op |-> "start_evaluation",
                       val |-> Some(first_existing(evaluations, user_id, content_id)),
                       log |-> "already_evaluated"]
            /\ UNCHANGED calls
       ELSE /\ room_for(1)
            /\ calls' = [calls EXCEPT ![w] =
                            [op |-> "start_evaluation",
                             new_rows |-> <<new_evaluation(user_id, content_id)>>]]
            /\ UNCHANGED ret
    /\ UNCHANGED <<users, profiles, contents, criteria, questions, created, suggestions,
                   reports, session, exports, evaluations, scores, now, arg>>

(* session.add(evaluation); session.commit(); return evaluation.id *)
start_evaluation_write(w) ==
    /\ calls[w].op = "start_evaluation"
    /\ evaluations' = evaluations \o rows_to_insert(evaluations, calls[w].new_rows)
    /\ ret' = [op |-> "start_evaluation", val |-> Some(Len(evaluations')), log |-> "started"]
    /\ calls' = [calls EXCEPT ![w] = idle]
    /\ UNCHANGED <<users, profiles, contents, criteria, questions, created, suggestions,
                   reports, session, exports, scores, now, arg>>

(* The expert query and, per expert, the query for an existing evaluation *)
assign_content_to_experts_read(w, content_id, domain) ==
    LET done == create_assignments(qualified_experts(Len(profiles), domain), 1,
                                   content_id, evaluations, <<>>)
        new_rows == SubSeq(done.evaluations, Len(evaluations) + 1, Len(done.evaluations))
    IN  /\ calls[w] = idle
        /\ room_for(Len(new_rows))
        /\ calls' = [calls EXCEPT ![w] =
                        [op |-> "assign_content_to_experts", new_rows |-> new_rows,
                         evaluation_ids |-> done.evaluation_ids,
                         read |-> Len(evaluations)]]
        /\ UNCHANGED <<users, profiles, contents, criteria, questions, created, suggestions,
                       reports, session, exports, evaluations, scores, now, arg, ret>>

(* The ids the database gives the rows of a call that read the table when it *)
(* had calls[w].read rows                                                     *)
assigned_ids(w) ==
    [k \in DOMAIN calls[w].evaluation_ids |->
        IF calls[w].evaluation_ids[k] <= calls[w].read THEN calls[w].evaluation_ids[k]
        ELSE calls[w].evaluation_ids[k] + (Len(evaluations) - calls[w].read)]

(* session.add(evaluation); session.flush() per expert; session.commit() *)
assign_content_to_experts_write(w) ==
    /\ calls[w].op = "assign_content_to_experts"
    /\ evaluations' = evaluations \o rows_to_insert(evaluations, calls[w].new_rows)
    /\ ret' = [op |-> "assign_content_to_experts", val |-> assigned_ids(w), log |-> "assigned"]
    /\ calls' = [calls EXCEPT ![w] = idle]
    /\ UNCHANGED <<users, profiles, contents, criteria, questions, created, suggestions,
                   reports, session, exports, scores, now, arg>>

----------------------------------------------------------------------------
(* Two workers that start and assign evaluations of one content *)

StartRead ==
    \E w \in Workers, u \in {2, 3}, c \in {1, 9} : start_evaluation_read(w, u, c)

StartWrite == \E w \in Workers : start_evaluation_write(w)

AssignRead ==
    \E w \in Workers, d \in {"creative_writing", "marketing_copy"} :
        assign_content_to_experts_read(w, 1, d)

AssignWrite == \E w \in Workers : assign_content_to_experts_write(w)

NextRace ==
    \/ StartRead
    \/ StartWrite
    \/ AssignRead
    \/ AssignWrite

SpecRace == Init /\ [][NextRace]_vars

----------------------------------------------------------------------------
(* Claim C23 *)

Inserting(w) ==
    /\ calls[w].op \in {"start_evaluation", "assign_content_to_experts"}
    /\ calls'[w] = idle

DuplicatePair ==
    \E i, j \in DOMAIN evaluations :
        /\ i < j
        /\ evaluations[i].evaluator_id = evaluations[j].evaluator_id
        /\ evaluations[i].content_id = evaluations[j].content_id

(* C23: the existence check and the insert of start_evaluation, and of         *)
(* assign_content_to_experts, are a read followed by an unguarded write: a call *)
(* that found no evaluation for a pair inserts its row whatever has been        *)
(* inserted since, so two calls for one pair that both read before either       *)
(* writes both insert, and two rows for one pair are reachable.                 *)
C23_UnguardedReadThenWrite ==
    [][\A w \in Workers :
          Inserting(w) => evaluations' = evaluations \o calls[w].new_rows]_vars

C23_Witness ==
    /\ DuplicatePair
    /\ \A w \in Workers : calls[w] = idle
    /\ ret.op = "start_evaluation"
    /\ ret.log = "started"


----------------------------------------------------------------------------
(* interfaces.dashboard.model_comparison: the generation and the query for *)
(* the report as separate steps of a worker                                *)

reports_of_type(report_type) ==
    {r \in DOMAIN reports : reports[r].report_type = report_type}

(* Variant: the most recent report of any type *)
latest_of_any_type(report_type) ==
    IF reports = <<>> THEN 0 ELSE Len(reports)

(* filter(report_type == ...).order_by(created_at.desc()).first(): created_at *)
(* is read from the clock at each save, so the latest report is the one saved *)
(* last; 0 stands for no report                                               *)
latest_report(report_type) ==
    IF reports_of_type(report_type) = {} THEN 0
    ELSE CHOOSE r \in reports_of_type(report_type) :
            \A q \in reports_of_type(report_type) : q <= r

(* analytics_engine.generate_model_comparison(...), which saves the report *)
model_comparison_generate(w, selected_models, selected_domains, timeframe) ==
    /\ calls[w] = idle
    /\ Len(reports) < MaxSavedReports
    /\ reports' = saved_reports("model_comparison", <<"Model Comparison", timeframe>>,
                                comparison_results(selected_models, selected_domains,
                                                   None, timeframe))
    /\ calls' = [calls EXCEPT ![w] = [op |-> "model_comparison",
                                      saved |-> Len(reports) + 1]]
    /\ UNCHANGED <<users, profiles, contents, criteria, questions, created, suggestions,
                   session, exports, evaluations, scores, now, arg, ret>>

(* The query for the report and the redirect to view_report *)
model_comparison_redirect(w) ==
    /\ calls[w].op = "model_comparison"
    /\ ret' = [op |-> "model_comparison",
               val |-> [report_id |-> latest_report("model_comparison"),
                        saved |-> calls[w].saved],
               log |-> "view_report"]
    /\ calls' = [calls EXCEPT ![w] = idle]
    /\ UNCHANGED <<users, profiles, contents, criteria, questions, created, suggestions,
                   reports, session, exports, evaluations, scores, now, arg>>

----------------------------------------------------------------------------
(* Two workers generating comparisons while other reports are saved *)

GenerateComparison ==
    \E w \in Workers, models \in {<<"m1">>, <<"m1", "m2">>} :
        model_comparison_generate(w, models, None, "all_time")

RedirectToReport == \E w \in Workers : model_comparison_redirect(w)

SaveOtherReport == save_analytics_report("improvement_areas", "Improvement Areas", <<>>, None)

NextLatest ==
    \/ GenerateComparison
    \/ RedirectToReport
    \/ SaveOtherReport

SpecLatest == Init /\ [][NextLatest]_vars

----------------------------------------------------------------------------
(* Claim C24 *)

Redirecting(w) == calls[w].op = "model_comparison" /\ calls'[w] = idle

SavedSince(w, report_type) ==
    \E r \in reports_of_type(report_type) : r > calls[w].saved

----------------------------------------------------------------------------
(* main: the start-up script and the requests the started server answers.  *)
(* calls[1] is the server of the process: idle while app.run has not been  *)
(* called, and otherwise the record of app.run with the value that         *)
(* initialize_application had returned.                                    *)

main_started == calls[1].op = "app.run"

(* initialize_application: success = init_db(); on failure log and return  *)
(* False, otherwise return True                                            *)
initialize_application(failure) ==
    /\ ~main_started
    /\ ret.op = "none"
    /\ init_db(failure)

(* __main__: initialize_application() is called as a statement, then       *)
(* app.run(host=APP_HOST, port=APP_PORT)                                   *)
app_run ==
    /\ ~main_started
    /\ ret.op = "init_db"
    /\ calls' = [calls EXCEPT ![1] = [op |-> "app.run", initialized |-> ret.val]]
    /\ ret' = [op |-> "app.run", val |-> None, log |-> "running"]
    /\ UNCHANGED <<users, profiles, contents, criteria, questions, created, suggestions,
                   reports, session, exports, evaluations, scores, now, arg>>

(* /health *)
health_check ==
    /\ main_started
    /\ ret' = [op |-> "health_check", val |-> Some([status |-> "ok", timestamp |-> now]),
               log |-> "200"]
    /\ UNCHANGED <<tables, evaluations, scores, now, arg>>

(* round(completed_evaluations / total_evaluations * 100, 1) if             *)
(* total_evaluations else 0, in tenths of a percent                         *)
completion_rate(completed, total) ==
    IF total = 0 THEN 0 ELSE (2 * 1000 * completed + total) \div (2 * total)

statistics ==
    LET completed == {e \in DOMAIN evaluations : evaluations[e].completion_time # None}
    IN  [total_content |-> Len(contents),
         total_evaluations |-> Len(evaluations),
         completed_evaluations |-> Cardinality(completed),
         completion_rate |-> completion_rate(Cardinality(completed), Len(evaluations)),
         content_by_domain |->
            [d \in DOMAIN CONTENT_DOMAINS |->
                Cardinality({c \in DOMAIN contents :
                                contents[c].domain = CONTENT_DOMAINS[d]})],
         content_by_source |->
            [s \in {"ai", "human"} |->
                Cardinality({c \in DOMAIN contents : contents[c].source_type = s})]]

(* /api/statistics; without the tables the first query raises and the      *)
(* request is answered by the 500 handler                                   *)
api_statistics ==
    /\ main_started
    /\ ret' = IF created
              THEN [op |-> "api_statistics", val |-> Some(statistics), log |-> "200"]
              ELSE [op |-> "api_statistics", val |-> None, log |-> "500"]
    /\ UNCHANGED <<tables, evaluations, scores, now, arg>>

(* The process ends (app.run returns when the server is shut down); the     *)
(* database file stays                                                      *)
main_exit ==
    /\ main_started
    /\ calls' = [calls EXCEPT ![1] = idle]
    /\ ret' = [op |-> "none", val |-> None, log |-> "none"]
    /\ UNCHANGED <<users, profiles, contents, criteria, questions, created, suggestions,
                   reports, session, exports, evaluations, scores, now, arg>>

----------------------------------------------------------------------------
(* Start-up: the script is run on an empty database, and run again; accounts *)
(* are created through utils.create_user at any time                         *)

InitializeApplication == \E f \in Failures : initialize_application(f)

NextStartup ==
    \/ InitializeApplication
    \/ app_run
    \/ health_check
    \/ api_statistics
    \/ main_exit
    \/ TickTimed
    \/ CreateUser

SpecStartup == InitAccounts /\ [][NextStartup]_vars

----------------------------------------------------------------------------
(* Claim C25 *)

(* No request is answered before initialize_application has run *)
InitializedBeforeRequests ==
    ret.op \in {"health_check", "api_statistics"} => main_started

(* C25: on start-up the database initialization runs before the server     *)
(* accepts any request, and when it fails the failure is logged and the    *)
(* start-up is aborted: the HTTP server is never started after a failed    *)
(* init_db.                                                                *)
C25_FailedInitAbortsStartup ==
    /\ InitializedBeforeRequests
    /\ main_started => calls[1].initialized = TRUE


----------------------------------------------------------------------------
(* Evaluator.get_evaluation_statistics *)

(* query.filter(Evaluation.evaluator_id == user_id), applied when user_id is *)
(* given                                                                     *)
matches_user(e, user_id) ==
    user_id = None \/ evaluations[e].evaluator_id = user_id[1]

(* session.query(Content).join(Evaluation, Content.id ==                     *)
(* Evaluation.content_id): one row per pair of a content and an evaluation   *)
(* of it                                                                     *)
content_join(user_id) ==
    {<<c, e>> \in (DOMAIN contents) \X (DOMAIN evaluations) :
        evaluations[e].content_id = c /\ matches_user(e, user_id)}

(* contents.filter(...).count(): the rows of the join that pass the filter *)
domain_count(user_id, domain) ==
    Cardinality({r \in content_join(user_id) : contents[r[1]].domain = domain})

source_type_count(user_id, source_type) ==
    Cardinality({r \in content_join(user_id) : contents[r[1]].source_type = source_type})

evaluation_statistics(user_id) ==
    LET query == {e \in DOMAIN evaluations : matches_user(e, user_id)}
        completed == {e \in query : evaluations[e].completion_time # None}
    IN  [total_evaluations |-> Cardinality(query),
         completed_evaluations |-> Cardinality(completed),
         completion_rate |-> completion_rate(Cardinality(completed), Cardinality(query)),
         domain_distribution |->
            [d \in DOMAIN CONTENT_DOMAINS |-> domain_count(user_id, CONTENT_DOMAINS[d])],
         content_type_distribution |->
            [s \in {"ai", "human"} |-> source_type_count(user_id, s)]]

get_evaluation_statistics(user_id) ==
    /\ arg' = user_id
    /\ ret' = [op |-> "get_evaluation_statistics", val |-> Some(evaluation_statistics(user_id)),
               log |-> "none"]
    /\ UNCHANGED <<tables, evaluations, scores, now>>

----------------------------------------------------------------------------
(* Statistics: two evaluators, two contents, with and without the filter *)

UserFilters == {None, Some(2), Some(3)}

StartCounted == \E u \in {2, 3}, c \in {1, 2} : start_evaluation(u, c)

SubmitCounted == \E e \in EvaluationInputs : submit_evaluation(e, <<3, 3>>, 4, None, None)

GetEvaluationStatistics == \E f \in UserFilters : get_evaluation_statistics(f)

NextStatistics ==
    \/ Tick
    \/ StartCounted
    \/ SubmitCounted
    \/ GetEvaluationStatistics

SpecStatistics == Init /\ [][NextStatistics]_vars

----------------------------------------------------------------------------
(* Claim C26 *)

(* The content items of a domain, or of a source type, with at least one    *)
(* evaluation matching the filter                                           *)
EvaluatedContents(user_id) ==
    {c \in DOMAIN contents :
        \E e \in DOMAIN evaluations :
            /\ evaluations[e].content_id = c
            /\ (user_id # None => evaluations[e].evaluator_id = user_id[1])}

DistinctContentCounts(stats, user_id) ==
    /\ \A d \in DOMAIN CONTENT_DOMAINS :
          stats.domain_distribution[d] =
              Cardinality({c \in EvaluatedContents(user_id) :
                              contents[c].domain = CONTENT_DOMAINS[d]})
    /\ \A s \in {"ai", "human"} :
          stats.content_type_distribution[s] =
              Cardinality({c \in EvaluatedContents(user_id) : contents[c].source_type = s})

(* C26: get_evaluation_statistics returns completed_evaluations <=          *)
(* total_evaluations, completion_rate = 0 when the total is 0, and for each *)
(* fixed domain, and each source type, the number of distinct Content items *)
(* of that domain (source type) with at least one Evaluation matching the   *)
(* user filter: a content item with several evaluations is counted once.    *)
C26_StatisticsCountContentOnce ==
    ret.op = "get_evaluation_statistics" =>
        /\ ret.val[1].completed_evaluations <= ret.val[1].total_evaluations
        /\ ret.val[1].total_evaluations = 0 => ret.val[1].completion_rate = 0
        /\ DistinctContentCounts(ret.val[1], arg)


----------------------------------------------------------------------------
(* expert_portal.dashboard: quality_stats *)

(* The three counts over the evaluations of current_user *)
quality_stats(current_user) ==
    LET mine == {e \in DOMAIN evaluations : evaluations[e].evaluator_id = current_user}
    IN  [passed |-> Cardinality({e \in mine :
                        evaluations[e].passed_quality_checks = Some(TRUE)}),
         failed |-> Cardinality({e \in mine :
                        evaluations[e].passed_quality_checks = Some(FALSE)}),
         unknown |-> Cardinality({e \in mine :
                        /\ evaluations[e].passed_quality_checks = None
                        /\ evaluations[e].completion_time # None})]

----------------------------------------------------------------------------
(* Claim C27 *)

IsPending(e) ==
    /\ e.completion_time = None
    /\ e.duration_seconds = None
    /\ e.overall_rating = None
    /\ e.passed_quality_checks = None

IsComplete(e) ==
    /\ e.completion_time # None
    /\ e.duration_seconds # None
    /\ e.duration_seconds[1] \in Nat
    /\ e.passed_quality_checks \in {Some(TRUE), Some(FALSE)}

----------------------------------------------------------------------------
(* Claim C28 *)

RefersToExisting(e) ==
    Exists(users, e.evaluator_id) /\ Exists(contents, e.content_id)

(* start_evaluation returns None and creates nothing for a missing user or *)
(* content                                                                 *)
StartNeedsUserAndContent(u, c) ==
    (start_evaluation(u, c) /\ ~(Exists(users, u) /\ Exists(contents, c))) =>
        ret'.val = None /\ evaluations' = evaluations

(* The rows an assignment creates are of an existing content of the domain *)
(* the assignment was made for                                             *)
AssignsExistingContentOfDomain(c, d) ==
    assign_content_to_experts(c, d) =>
        \A e \in DOMAIN evaluations' \ DOMAIN evaluations :
            /\ evaluations'[e].content_id = c
            /\ Exists(contents, c)
            /\ contents[c].domain = d

(* C28: after any sequence of start_evaluation and                         *)
(* assign_content_to_experts calls every Evaluation row refers to an       *)
(* existing User and an existing Content whose domain the assignment was   *)
(* made for: start_evaluation returns None for a missing user or content,  *)
(* and assign_content_to_experts creates nothing for a missing content id. *)
C28_EvaluationsReferToExisting ==
    /\ [](\A e \in DOMAIN evaluations : RefersToExisting(evaluations[e]))
    /\ [][/\ \A u \in UserInputs, c \in {1, 9} : StartNeedsUserAndContent(u, c)
          /\ \A c \in {1, 9}, d \in DomainInputs : AssignsExistingContentOfDomain(c, d)]_vars


----------------------------------------------------------------------------
(* Evaluator.submit_evaluation, step by step: the query for the evaluation *)
(* and the tests on it, then the commit of the changes the call prepared   *)

(* session.query(Evaluation).get(evaluation_id), the two early returns, and *)
(* the changes made to the loaded object and added to the session           *)
submit_evaluation_read(w, evaluation_id, score_map, overall_rating, comments, quality_check_answers) ==
    /\ calls[w] = idle
    /\ IF ~Exists(evaluations, evaluation_id)
       THEN /\ ret' = [op |-> "submit_evaluation", val |-> FALSE, log |-> "not found"]
            /\ UNCHANGED calls
       ELSE IF ~pending(evaluations[evaluation_id])
       THEN /\ ret' = [op |-> "submit_evaluation", val |-> FALSE, log |-> "already completed"]
            /\ UNCHANGED calls
       ELSE /\ calls' = [calls EXCEPT ![w] =
                           [op |-> "submit_evaluation",
                            evaluation_id |-> evaluation_id,
                            evaluation |-> completed_evaluation(evaluations[evaluation_id],
                                               overall_rating, comments,
                                               quality_check_answers),
                            score_records |-> score_records(evaluation_id, score_map,
                                                            DOMAIN score_map),
                            log |-> score_warnings(score_map, DOMAIN score_map)]]
            /\ UNCHANGED ret
    /\ UNCHANGED <<users, profiles, contents, criteria, questions, created, suggestions,
                   reports, session, exports, evaluations, scores, now, arg>>

(* session.commit(): the UPDATE of the evaluation by its id and the INSERT *)
(* of the score records                                                    *)
submit_evaluation_write(w) ==
    /\ calls[w].op = "submit_evaluation"
    /\ evaluations' = [evaluations EXCEPT ![calls[w].evaluation_id] = calls[w].evaluation]
    /\ scores' = scores \o calls[w].score_records
    /\ ret' = [op |-> "submit_evaluation", val |-> TRUE, log |-> calls[w].log]
    /\ calls' = [calls EXCEPT ![w] = idle]
    /\ UNCHANGED <<users, profiles, contents, criteria, questions, created, suggestions,
                   reports, session, exports, now, arg>>

----------------------------------------------------------------------------
(* Two workers that submit evaluations of one content; the overall rating *)
(* tells the submissions apart                                            *)

RacedSubmissions ==
    {[scores |-> <<3, 3>>, overall_rating |-> 2],
     [scores |-> <<5, 4>>, overall_rating |-> 4]}

StartRaced == \E u \in {2, 3} : start_evaluation(u, 1)

SubmitRead ==
    \E w \in Workers, e \in EvaluationInputs, i \in RacedSubmissions :
        submit_evaluation_read(w, e, i.scores, i.overall_rating, None, None)

SubmitWrite == \E w \in Workers : submit_evaluation_write(w)

NextSubmitRace ==
    \/ TickTimed
    \/ StartRaced
    \/ SubmitRead
    \/ SubmitWrite

SpecSubmitRace == Init /\ [][NextSubmitRace]_vars

----------------------------------------------------------------------------
(* Claim C29 *)

ScoresOf(e) == SelectSeq(scores, LAMBDA r : r.evaluation_id = e)

OneScorePerCriterion ==
    \A r, s \in DOMAIN scores :
        (scores[r].evaluation_id = scores[s].evaluation_id
            /\ scores[r].criterion_id = scores[s].criterion_id) => r = s

(* The rating and the score rows of a completed evaluation are those of one *)
(* submission                                                               *)
FromOneSubmission(e) ==
    ~pending(evaluations[e]) =>
        \E i \in RacedSubmissions :
            /\ evaluations[e].overall_rating = Some(i.overall_rating)
            /\ ScoresOf(e) = score_records(e, i.scores, DOMAIN i.scores)

(* A call completes an evaluation only while it is pending *)
CompletesPending(w) ==
    submit_evaluation_write(w) => pending(evaluations[calls[w].evaluation_id])

(* C29: when two submit_evaluation calls for the same pending evaluation   *)
(* interleave, at most one of them completes it: there is never more than  *)
(* one EvaluationScore row per (evaluation, criterion), and the stored     *)
(* completion_time, overall_rating and scores all come from the same       *)
(* single submission.                                                      *)
C29_AtMostOneCompletes ==
    /\ [](OneScorePerCriterion /\ \A e \in DOMAIN evaluations : FromOneSubmission(e))
    /\ [][\A w \in Workers : CompletesPending(w)]_vars


----------------------------------------------------------------------------
(* become_expert, step by step: the query for the profile in its own unit  *)
(* of work, then the form and the call of create_expert_profile            *)

(* The first get_db_session scope and form.validate_on_submit() *)
become_expert_read(w, user_id, form) ==
    /\ calls[w] = idle
    /\ IF ~validate_on_submit(form)
       THEN /\ ret' = [op |-> "become_expert", val |-> None, log |-> "form"]
            /\ UNCHANGED calls
       ELSE /\ calls' = [calls EXCEPT ![w] =
                           [op |-> "become_expert", user_id |-> user_id, form |-> form,
                            profile |-> profile_of(user_id),
                            verified |-> verified_kept(profile_of(user_id))]]
            /\ UNCHANGED ret
    /\ UNCHANGED <<users, profiles, contents, criteria, questions, created, suggestions,
                   reports, session, exports, evaluations, scores, now, arg>>

(* create_expert_profile(current_user.id, ..., verified=False if not       *)
(* profile else profile.verified), with the profile that was read          *)
become_expert_write(w) ==
    LET form == calls[w].form
        saved == saved_profile(calls[w].user_id, form.domains, form.years_experience,
                               form.qualifications, form.bio, calls[w].verified)
    IN  /\ calls[w].op = "become_expert"
        /\ profiles' = saved.profiles
        /\ ret' = [op |-> "become_expert",
                   val |-> IF saved.id = 0 THEN None ELSE Some(saved.id),
                   log |-> IF saved.id = 0 THEN "failed" ELSE "updated"]
        /\ calls' = [calls EXCEPT ![w] = idle]
        /\ UNCHANGED <<users, contents, criteria, questions, created, suggestions,
                       reports, session, exports, evaluations, scores, now, arg>>

----------------------------------------------------------------------------
(* Verification: evaluators edit their profiles while an administrator     *)
(* verifies them through create_expert_profile                             *)

VerificationForms ==
    [domains : {<<>>, <<"creative_writing">>},
     years_experience : {5},
     qualifications : {None, Some("phd")},
     bio : {None}]

BecomeExpertRead ==
    \E w \in Workers, u \in {2, 3}, f \in VerificationForms : become_expert_read(w, u, f)

BecomeExpertWrite == \E w \in Workers : become_expert_write(w)

AdminVerifies ==
    \E u \in {2, 3}, v \in BOOLEAN :
        create_expert_profile(u, <<"marketing_copy">>, 5, None, None, v)

NextVerification ==
    \/ BecomeExpertRead
    \/ BecomeExpertWrite
    \/ AdminVerifies

SpecVerification == InitProfileEditing /\ [][NextVerification]_vars

----------------------------------------------------------------------------
(* Claim C30 *)

KeepsVerified(w) ==
    (become_expert_write(w) /\ profile_of(calls[w].user_id) # 0) =>
        profiles'[profile_of(calls[w].user_id)].verified =
            profiles[profile_of(calls[w].user_id)].verified

(* C30: become_expert reads the verified flag of the existing profile in   *)
(* one unit of work and writes it back in a later one; when another update *)
(* of the same profile, such as an administrator's create_expert_profile   *)
(* with verified = true, commits between that read and that write, the     *)
(* self-service submission still leaves the verified flag at the value it  *)
(* had immediately before the write: it never reverts a concurrent         *)
(* verification change.                                                    *)
C30_NeverRevertsVerification == [][\A w \in Workers : KeepsVerified(w)]_vars

====
